---- MODULE Spec2Model ----
(***************************************************************************)
(* Port-Hunter: classroom attendance by face matching.                     *)
(*                                                                         *)
(* The repository holds two implementations of the same pipeline:          *)
(*   "app"     src/app/...                         (FaceMatchingService,   *)
(*             process_attendance_background, LivenessDetectionService)    *)
(*   "backend" src/facial_recognition_backend/app/... (match_faces,        *)
(*             process_attendance, process_liveness, TaskQueue)            *)
(*                                                                         *)
(* Embeddings are unit vectors.  They are modelled as directions in the    *)
(* plane, in steps of 15 degrees (0..23); the dot product of two of them   *)
(* is the cosine of the angle between them, kept in hundredths.            *)
(* Similarities and thresholds are therefore integers in hundredths.       *)
(*                                                                         *)
(* A Python call that may raise is modelled by a record                    *)
(*   [ok |-> TRUE, val |-> v]   or   [ok |-> FALSE, exc |-> "KeyError"].   *)
(* A Python Optional is a sequence: <<>> is None, <<v>> is the value v.    *)
(***************************************************************************)
EXTENDS Integers, Sequences, FiniteSets, TLC

\* ------------------------------------------------------------------ bounds
MaxStudents == 3
MaxFaces == 2
MaxPhotos == 2
MaxFrames == 3
MaxCallers == 2
MaxTasks == 2
MaxCoord == 2
MaxDetections == 3
MaxAdmissions == 2
MaxEmbeddingLists == 2
MaxPrimaryFaces == 2
MaxFailedInsert == 2
MaxTinyFaces == 2
\* the face count under which multi_scale_detect retries, scaled down from 20
ExpectedFaces == 2
\* settings.LIVENESS_MIN_FRAMES_PER_POSE, scaled down from 15
LIVENESS_MIN_FRAMES_PER_POSE == 2

\* ------------------------------------------------------- configuration
\* settings.RECOGNITION_SIMILARITY_THRESHOLD (0.5), in hundredths
RECOGNITION_SIMILARITY_THRESHOLD == 50
\* settings.DETECTION_CONFIDENCE_THRESHOLD (0.3) and the min_thresh of
\* multi_scale_detect (0.1), in hundredths
DETECTION_CONFIDENCE_THRESHOLD == 30
min_thresh == 10

None == <<>>
Some(v) == <<v>>
Ok(v) == [ok |-> TRUE, val |-> v]
Raise(e) == [ok |-> FALSE, exc |-> e]

\* ------------------------------------------------------------ embeddings
Angles == 0..23
\* 100 * cos(15 * d degrees), d = 0..12, rounded
CosTable == <<100, 97, 87, 71, 50, 26, 0, -26, -50, -71, -87, -97, -100>>

\* np.dot(e1, e2) of two unit vectors
Dot(e1, e2) ==
    LET d == IF e1 >= e2 THEN e1 - e2 ELSE e2 - e1
        m == IF d > 12 THEN 24 - d ELSE d
    IN  CosTable[m + 1]

\* np.clip(x, lo, hi)
Clip(x, lo, hi) == IF x < lo THEN lo ELSE IF x > hi THEN hi ELSE x

\* FaceRecognitionService.compute_similarity
compute_similarity(e1, e2) == Clip(Dot(e1, e2), 0, 100)

\* cosine_similarity of the backend: no clipping
cosine_similarity(e1, e2) == Dot(e1, e2)

\* ---------------------------------------------------------------- roster
\* The rows of the students table: student i carries the reference
\* embeddings StudentEmbeddings(i) stored at registration.
StudentEmbeddings(i) ==
    CASE i = 1 -> <<0, 2>>
      [] i = 2 -> <<8>>
      [] i = 3 -> <<14>>
      [] OTHER -> <<(5 * i) % 24>>

StudentRow(i) == [id |-> i, embeddings |-> StudentEmbeddings(i)]

\* the roster of a unit with n registered students, in table order
RosterOf(n) == [i \in 1..n |-> StudentRow(i)]

\* the same roster whose last student has started registration but has no
\* embeddings stored yet (start_registration inserts "embeddings": [])
RosterPending(n) ==
    [i \in 1..n |-> IF i = n THEN [id |-> i, embeddings |-> <<>>] ELSE StudentRow(i)]

Rosters == {RosterOf(n) : n \in 0..MaxStudents}
               \cup {RosterPending(n) : n \in 1..MaxStudents}

\* ======================================================================
\* app: FaceMatchingService  (src/app/services/matching.py)
\* ======================================================================

\* lines 46-59: the best similarity of the query over one student's
\* embeddings; max_similarity[i] is the variable after i iterations
MaxSimilarity(query, embs) ==
    LET max_similarity[i \in 0..Len(embs)] ==
            IF i = 0 THEN 0
            ELSE LET similarity == compute_similarity(query, embs[i])
                 IN  IF similarity > max_similarity[i - 1]
                     THEN similarity ELSE max_similarity[i - 1]
    IN  max_similarity[Len(embs)]

\* line 72: the acceptance test on the best candidate
AcceptsLax(best_match, best_similarity) == best_match # None

Accepts(best_match, best_similarity) ==
    best_match # None /\ best_similarity >= RECOGNITION_SIMILARITY_THRESHOLD

\* a loop that replaces the best candidate on an equal similarity too
BestStepOnTie(best, student, max_similarity) ==
    IF Len(student.embeddings) = 0 THEN best
    ELSE IF max_similarity >= best.sim
         THEN [match |-> Some([student_id |-> student.id,
                               similarity_score |-> max_similarity]),
               sim |-> max_similarity]
         ELSE best

\* lines 62-69: the best candidate after one more student
BestStep(best, student, max_similarity) ==
    IF Len(student.embeddings) = 0 THEN best
    ELSE IF max_similarity > best.sim
         THEN [match |-> Some([student_id |-> student.id,
                               similarity_score |-> max_similarity]),
               sim |-> max_similarity]
         ELSE best

\* lines 35-69: the loop over the roster; best[i] holds best_match and
\* best_similarity after i students
BestMatch(query, student_records) ==
    LET best[i \in 0..Len(student_records)] ==
            IF i = 0 THEN [match |-> None, sim |-> 0]
            ELSE BestStep(best[i - 1], student_records[i],
                          MaxSimilarity(query, student_records[i].embeddings))
    IN  best[Len(student_records)]

\* lines 71-80
Accepted(best) == IF Accepts(best.match, best.sim) THEN best.match ELSE None

\* match_single_face: None, or the best match dictionary
match_single_face(query, student_records) ==
    Accepted(BestMatch(query, student_records))

\* lines 106-133: what one query embedding adds; md is metadata[idx] (None
\* when the metadata list is shorter), acc = [matched, unknown, ids]
MatchStep(acc, query_embedding, md, match_result) ==
    IF match_result # None
    THEN IF match_result[1].student_id \notin acc.ids
         THEN [acc EXCEPT
                !.matched = Append(@, [student_id |-> match_result[1].student_id,
                                       similarity_score |-> match_result[1].similarity_score,
                                       bbox |-> md]),
                !.ids = @ \cup {match_result[1].student_id}]
         ELSE acc
    ELSE [acc EXCEPT
           !.unknown = Append(@, [embedding |-> query_embedding, bbox |-> md])]

\* match_multiple_faces: (matched_students, unknown_faces); acc[idx] is the
\* state of the loop after idx query embeddings
match_multiple_faces(query_embeddings, student_records, metadata) ==
    LET acc[idx \in 0..Len(query_embeddings)] ==
            IF idx = 0 THEN [matched |-> <<>>, unknown |-> <<>>, ids |-> {}]
            ELSE MatchStep(acc[idx - 1], query_embeddings[idx],
                           IF idx <= Len(metadata) THEN Some(metadata[idx]) ELSE None,
                           match_single_face(query_embeddings[idx], student_records))
    IN  acc[Len(query_embeddings)]

\* lines 160-167: the absent entries of the students that are not present
AbsentEntries(all_students, present_ids) ==
    LET NotPresent(s) == s.id \notin present_ids
        rest == SelectSeq(all_students, NotPresent)
    IN  [i \in 1..Len(rest) |-> [student_id |-> rest[i].id, status |-> "absent"]]

\* get_absent_students: student['id'] raises KeyError on a dictionary
\* without the key 'id'
get_absent_students(all_students, present_ids) ==
    IF \E i \in 1..Len(all_students) : "id" \notin DOMAIN all_students[i]
    THEN Raise("KeyError")
    ELSE Ok(AbsentEntries(all_students, present_ids))

\* the student ids of a list of present entries
StudentIds(entries) == {entries[i].student_id : i \in 1..Len(entries)}

\* lines 206-214: the result dictionary
AttendanceResults(mu, absent, registered_students) ==
    IF ~absent.ok THEN absent
    ELSE Ok([total_registered |-> Len(registered_students),
             total_present |-> Len(mu.matched),
             total_absent |-> Len(absent.val),
             total_unknown_faces |-> Len(mu.unknown),
             present_students |-> mu.matched,
             absent_students |-> absent.val,
             unknown_faces |-> mu.unknown])

\* lines 196-203
AttendanceOf(mu, registered_students) ==
    AttendanceResults(mu, get_absent_students(registered_students, StudentIds(mu.matched)),
                      registered_students)

\* FaceMatchingService.process_attendance: the per-photo result
process_attendance(detected_embeddings, metadata, registered_students) ==
    AttendanceOf(match_multiple_faces(detected_embeddings, registered_students, metadata),
                 registered_students)

\* lines 258-260: a student already seen keeps the entry seen first
KeepFirst(acc, student) ==
    IF student.student_id \notin acc.ids
    THEN [ids |-> acc.ids \cup {student.student_id},
          order |-> Append(acc.order, student)]
    ELSE acc

\* the present entries of all the results, in the order the loops visit them
RECURSIVE AllPresent(_, _)
AllPresent(results_list, r) ==
    IF r > Len(results_list) THEN <<>>
    ELSE results_list[r].present_students \o AllPresent(results_list, r + 1)

\* lines 252-260: all_present_ids and present_students_map
PresentMap(entries) ==
    LET acc[k \in 0..Len(entries)] ==
            IF k = 0 THEN [ids |-> {}, order |-> <<>>]
            ELSE KeepFirst(acc[k - 1], entries[k])
    IN  acc[Len(entries)]

\* lines 263-265
RECURSIVE ConcatUnknown(_, _)
ConcatUnknown(results_list, r) ==
    IF r > Len(results_list) THEN <<>>
    ELSE results_list[r].unknown_faces \o ConcatUnknown(results_list, r + 1)

\* lines 277-288: the merged dictionary
MergedResults(pm, all_unknown_faces, total_registered, absent) ==
    IF ~absent.ok THEN absent
    ELSE Ok([total_registered |-> total_registered,
             total_present |-> Cardinality(pm.ids),
             total_absent |-> total_registered - Cardinality(pm.ids),
             total_unknown_faces |-> Len(all_unknown_faces),
             present_students |-> pm.order,
             absent_students |-> absent.val,
             unknown_faces |-> all_unknown_faces])

\* lines 251-288, given present_students_map
MergeWith(pm, results_list) ==
    MergedResults(pm, ConcatUnknown(results_list, 1), results_list[1].total_registered,
                  get_absent_students(results_list[1].present_students
                                          \o results_list[1].absent_students,
                                      pm.ids))

\* FaceMatchingService.merge_results_from_multiple_photos
merge_results_from_multiple_photos(results_list) ==
    IF Len(results_list) = 0
    THEN Ok([total_registered |-> 0, total_present |-> 0, total_absent |-> 0,
             total_unknown_faces |-> 0, present_students |-> <<>>,
             absent_students |-> <<>>, unknown_faces |-> <<>>])
    ELSE MergeWith(PresentMap(AllPresent(results_list, 1)), results_list)

\* ======================================================================
\* photographs
\* ======================================================================
\* A photograph is what the detector makes of it:
\*   kind   "ok", "undecodable" (the base64 does not decode) or
\*          "detector_error" (the detector raises)
\*   faces  the detections, in the detector's order.
\* A face is the embedding the extractor would give for it and how far it
\* gets through the pipeline:
\*   "ok"            aligned, of good quality, embedded
\*   "blurry"        aligned and embedded, but the quality gate rejects it
\*   "no_align"      normalize_face gives None / no usable landmarks
\*   "no_embedding"  the embedding extractor fails on it
Face(e, st) == [emb |-> e, stage |-> st]

\* The directions of the faces given to the matcher: against the rosters
\* they give every kind of best similarity: an exact match (0, 14), a near
\* one (1), the threshold itself (4, 6), a tie between two students (5,
\* 11), a positive similarity below the threshold (7) and a negative one (9)
MatchAngles == {0, 1, 4, 5, 6, 7, 9, 11, 14}

AllFaces ==
    {Face(a, "ok") : a \in MatchAngles}
        \cup {Face(0, "blurry"), Face(0, "no_align"), Face(0, "no_embedding")}

\* the faces of the photographs of a whole session
SessionFaces == {Face(1, "ok"), Face(6, "ok"), Face(8, "ok"), Face(0, "no_align")}

SeqsUpTo(S, n) == UNION {[1..k -> S] : k \in 0..n}

PhotosOver(F) ==
    {[kind |-> "ok", faces |-> fs] : fs \in SeqsUpTo(F, MaxFaces)}
        \cup {[kind |-> "undecodable", faces |-> <<>>],
              [kind |-> "detector_error", faces |-> <<>>]}

AllPhotos == PhotosOver(AllFaces)
SessionPhotos == PhotosOver(SessionFaces)

\* ======================================================================
\* app: one photograph  (src/app/routers/attedance.py, lines 71-104)
\* ======================================================================

\* face_detector.detect_faces_in_image: the detections, or an exception
detect_faces_in_image(photo) ==
    IF photo.kind = "ok" THEN Ok(photo.faces) ELSE Raise("DetectionError")

\* the metadata list of the detections: entry i is the bounding box (and
\* the detection confidence) of detection i
MetadataOf(faces) == [i \in 1..Len(faces) |-> i]

\* FaceNormalizationService.normalize_face_list: failures are dropped
normalize_face_list(faces) ==
    LET Normalizes(f) == f.stage # "no_align"
    IN  SelectSeq(faces, Normalizes)

\* FaceRecognitionService.extract_embeddings_from_list: failures are dropped
extract_embeddings_from_list(normalized_faces) ==
    LET Embeds(f) == f.stage # "no_embedding"
        kept == SelectSeq(normalized_faces, Embeds)
    IN  [i \in 1..Len(kept) |-> kept[i].emb]

\* lines 87-100: the embeddings go to the matcher, unless there is none
PhotoResultOf(embeddings, metadata, registered_students) ==
    IF Len(embeddings) = 0 THEN None
    ELSE Some(process_attendance(embeddings, metadata, registered_students).val)

\* the body of the per-photo try block: None when the photo is skipped
\* (continue, or an exception caught at line 102), else the photo's result.
\* process_attendance does not raise here: the rows of the roster have ids.
AppPhotoResult(photo, registered_students) ==
    IF ~detect_faces_in_image(photo).ok THEN None
    ELSE IF Len(photo.faces) = 0 THEN None
    ELSE PhotoResultOf(extract_embeddings_from_list(normalize_face_list(photo.faces)),
                       MetadataOf(photo.faces), registered_students)

\* lines 107-118: the merge, or the fallback when no photo gave a result
AppFinalResults(all_results, registered_students) ==
    IF Len(all_results) > 0
    THEN merge_results_from_multiple_photos(all_results)
    ELSE Ok([total_registered |-> Len(registered_students),
             total_present |-> 0,
             total_absent |-> Len(registered_students),
             total_unknown_faces |-> 0,
             present_students |-> <<>>,
             absent_students |-> <<>>,
             unknown_faces |-> <<>>])

\* ======================================================================
\* backend: match_faces  (src/facial_recognition_backend/app/services/matching.py)
\* ======================================================================

\* lines 61-68: the best student over every embedding of every student
RECURSIVE BackendBestLoop(_, _, _, _, _)
BackendBestLoop(emb, students, i, k, best) ==
    IF i > Len(students) THEN best
    ELSE IF k > Len(students[i].embeddings)
         THEN BackendBestLoop(emb, students, i + 1, 1, best)
         ELSE LET score == cosine_similarity(emb, students[i].embeddings[k])
              IN  BackendBestLoop(emb, students, i, k + 1,
                      IF score > best.score
                      THEN [student |-> Some(students[i]), score |-> score]
                      ELSE best)

\* line 72: whether the new score replaces the student's current entry
Replaces(current, best_score) ==
    current = None \/ best_score > current[1].confidence_score

\* lines 70-88: the face is a match or an unknown face
BackendRecord(st, best) ==
    IF best.student # None /\ best.score >= RECOGNITION_SIMILARITY_THRESHOLD
    THEN IF Replaces(IF best.student[1].id \in DOMAIN st.present_map
                     THEN Some(st.present_map[best.student[1].id]) ELSE None,
                     best.score)
         THEN [st EXCEPT !.present_map =
                  [j \in DOMAIN st.present_map \cup {best.student[1].id} |->
                      IF j = best.student[1].id
                      THEN [id |-> j, confidence_score |-> best.score]
                      ELSE st.present_map[j]]]
         ELSE st
    ELSE [st EXCEPT !.unknown =
             Append(@, [confidence_score |-> IF best.score > 0 THEN best.score ELSE 0])]

\* lines 49-88: one detected face; st = [present_map, unknown]
BackendFace(face, students, st) ==
    IF face.stage \in {"no_align", "blurry", "no_embedding"} THEN st
    ELSE BackendRecord(st, BackendBestLoop(face.emb, students, 1, 1,
                                           [student |-> None, score |-> -100]))

RECURSIVE BackendFacesLoop(_, _, _, _)
BackendFacesLoop(faces, students, i, st) ==
    IF i > Len(faces) THEN st
    ELSE BackendFacesLoop(faces, students, i + 1, BackendFace(faces[i], students, st))

\* lines 43-88: one photograph; an exception of detect_faces leaves match_faces
BackendPhoto(photo, students, st) ==
    CASE photo.kind = "undecodable" -> Ok(st)
      [] photo.kind = "detector_error" -> Raise("DetectionError")
      [] OTHER -> Ok(BackendFacesLoop(photo.faces, students, 1, st))

\* lines 90-103: present (kept as the map from student id to entry), absent
\* and totals
BackendResults(students, st) ==
    LET NotPresent(s) == s.id \notin DOMAIN st.present_map
        rest == SelectSeq(students, NotPresent)
        absent == [i \in 1..Len(rest) |-> [id |-> rest[i].id]]
    IN  [totals |-> [present |-> Cardinality(DOMAIN st.present_map),
                     absent |-> Len(absent),
                     unknown |-> Len(st.unknown)],
         present |-> st.present_map,
         absent |-> absent,
         unknown |-> st.unknown]

\* ======================================================================
\* what the matcher is expected to answer, stated without its loops
\* ======================================================================
SetMax(S) == CHOOSE x \in S : \A y \in S : y <= x
SetMin(S) == CHOOSE x \in S : \A y \in S : x <= y

\* the similarity of a query to a student: the best over the student's
\* embeddings; -1 for a student without embeddings
StudentSimilarity(query, row) ==
    IF Len(row.embeddings) = 0 THEN -1
    ELSE SetMax({Clip(Dot(query, row.embeddings[k]), 0, 100) :
                    k \in 1..Len(row.embeddings)})

\* the best similarity of a query over the whole roster
TopSimilarity(query, roster) ==
    SetMax({StudentSimilarity(query, roster[i]) : i \in 1..Len(roster)} \cup {-1})

\* the students a query is expected to match: the earliest student of the
\* roster with the best similarity, if that reaches the threshold
ExpectedMatch(query, roster) ==
    IF TopSimilarity(query, roster) >= RECOGNITION_SIMILARITY_THRESHOLD
    THEN {roster[SetMin({i \in 1..Len(roster) :
              StudentSimilarity(query, roster[i]) = TopSimilarity(query, roster)})].id}
    ELSE {}

\* over the faces of a photo that reach the matcher
ExpectedPresent(faces, roster) ==
    UNION {ExpectedMatch(faces[i].emb, roster) : i \in 1..Len(faces)}

\* the best similarity among the faces expected to match student id
ExpectedScore(faces, roster, id) ==
    SetMax({TopSimilarity(faces[i].emb, roster) :
               i \in {j \in 1..Len(faces) : ExpectedMatch(faces[j].emb, roster) = {id}}}
           \cup {-1})

ExpectedUnknown(faces, roster) ==
    Cardinality({i \in 1..Len(faces) : ExpectedMatch(faces[i].emb, roster) = {}})

\* ======================================================================
\* attendance sessions
\* ======================================================================
VARIABLES
    impl,                \* "app" or "backend": the implementation that runs
    students_table,      \* the students rows of the unit (the roster)
    status,              \* the session row's status; "none" before creation
    counts,              \* the session row's counts; None while never written
    attendance_records,  \* app: rows of attendance_records for the session
    unknown_rows,        \* app: rows of unknown_faces for the session
    pc,                  \* where the session's task is
    n_photos,            \* len(classroom_photos)
    photo_idx,           \* the photo the loop is at
    registered_students, \* the task's roster, as read
    all_results,         \* app: the per-photo results so far
    final_results,       \* the session's result once computed, else None
    bk,                  \* backend: [present_map, unknown] of match_faces
    status_hist,         \* history: the status values written, in order
    raised,              \* history: the exception that reached the session's
                         \* handler ("db": a database call raised), else "none"
    ok_photos,           \* history: photos that gave a result
    exp_best,            \* history: for each student the faces of those photos
                         \* are expected to match, the best similarity
    exp_unknown,         \* history: the number of their faces that match nobody
    roster_reads         \* history: the rosters the task read from the
                         \* students table, in order

session_vars ==
    <<impl, students_table, status, counts, attendance_records, unknown_rows, pc,
      n_photos, photo_idx, registered_students, all_results, final_results, bk,
      status_hist, raised, ok_photos, exp_best, exp_unknown, roster_reads>>

task_locals == <<registered_students, all_results, final_results, bk>>
tables == <<attendance_records, unknown_rows>>
history == <<ok_photos, exp_best, exp_unknown>>

\* the rosters of the units of the sessions
SessionRosters == {RosterOf(n) : n \in 0..MaxStudents} \cup {RosterPending(2)}

SessionInit ==
    /\ impl \in {"app", "backend"}
    /\ students_table \in SessionRosters
    /\ status = "none"
    /\ counts = None
    /\ attendance_records = <<>>
    /\ unknown_rows = <<>>
    /\ pc = "idle"
    /\ n_photos = 0
    /\ photo_idx = 1
    /\ registered_students = <<>>
    /\ all_results = <<>>
    /\ final_results = None
    /\ bk = [present_map |-> <<>>, unknown |-> <<>>]
    /\ status_hist = <<>>
    /\ raised = "none"
    /\ ok_photos = 0
    /\ exp_best = <<>>
    /\ exp_unknown = 0
    /\ roster_reads = <<>>

\* a status write that the database accepted
WriteStatus(v) ==
    /\ status' = v
    /\ status_hist' = Append(status_hist, v)

\* the exception exc reaches the handler at the end of the task
ToHandler(exc) ==
    /\ pc' = "handler"
    /\ raised' = exc

\* the faces of a photo that reach the matcher: the app embeds every
\* normalized face, the backend only those that pass quality_checks
EmbeddedOf(imp, photo) ==
    LET Embedded(f) == IF imp = "app" THEN f.stage \in {"ok", "blurry"}
                       ELSE f.stage = "ok"
    IN  SelectSeq(photo.faces, Embedded)

EmbeddedFaces(photo) == EmbeddedOf(impl, photo)

\* history: what the faces handed to the matcher are expected to give
Observe(faces) ==
    /\ exp_best' =
          [id \in DOMAIN exp_best \cup ExpectedPresent(faces, registered_students) |->
              SetMax({ExpectedScore(faces, registered_students, id)}
                         \cup (IF id \in DOMAIN exp_best THEN {exp_best[id]} ELSE {}))]
    /\ exp_unknown' = exp_unknown + ExpectedUnknown(faces, registered_students)

\* ------------------------------------------------- other requests
\* While the session is processing, registration requests of other
\* clients are served.  A request served before the task reads the roster
\* gives the task one of the other initial tables, so the requests are
\* taken after the reading, and one per session: the table is as it was
\* read.  complete_registration of the app inserts a new student row
\* (routers/registration.py 184-194).
TableAsRead == roster_reads # <<>> /\ students_table = roster_reads[1]

StudentRegistered ==
    /\ status = "processing" /\ TableAsRead
    /\ Len(students_table) < MaxStudents
    /\ students_table' = Append(students_table, StudentRow(Len(students_table) + 1))
    /\ UNCHANGED <<impl, status, counts, tables, pc, n_photos, photo_idx, task_locals,
                   status_hist, raised, history, roster_reads>>

\* complete_registration of the backend stores the embeddings of a
\* student whose row start_registration inserted without any
\* (routers/registration.py 76-80)
EmbeddingsChanged ==
    /\ status = "processing" /\ TableAsRead
    /\ \E i \in 1..Len(students_table) : students_table[i].embeddings = <<>>
    /\ students_table' =
          [i \in 1..Len(students_table) |->
              IF students_table[i].embeddings = <<>> THEN StudentRow(i)
              ELSE students_table[i]]
    /\ UNCHANGED <<impl, status, counts, tables, pc, n_photos, photo_idx, task_locals,
                   status_hist, raised, history, roster_reads>>

\* ---------------------------------------------------------------- app
\* create_attendance_session (attedance.py 184-253): the row is inserted
\* as pending and the background task is added
create_attendance_session(n) ==
    /\ impl = "app" /\ pc = "idle"
    /\ WriteStatus("pending")
    /\ n_photos' = n
    /\ pc' = "start"
    /\ UNCHANGED <<impl, roster_reads, students_table, counts, tables, photo_idx, task_locals,
                   raised, history>>

\* lines 44-47: update processing_status = 'processing'
BgSetProcessing(db_ok) ==
    /\ impl = "app" /\ pc = "start"
    /\ IF db_ok
       THEN WriteStatus("processing") /\ pc' = "read" /\ UNCHANGED raised
       ELSE ToHandler("db") /\ UNCHANGED <<status, status_hist>>
    /\ UNCHANGED <<impl, roster_reads, students_table, counts, tables, n_photos, photo_idx,
                   task_locals, history>>

\* lines 50-61: the roster is read
BgReadRoster(db_ok) ==
    /\ impl = "app" /\ pc = "read"
    /\ IF db_ok
       THEN /\ registered_students' = students_table
            /\ roster_reads' = Append(roster_reads, students_table)
            /\ pc' = "photos" /\ UNCHANGED raised
       ELSE ToHandler("db") /\ UNCHANGED <<registered_students, roster_reads>>
    /\ UNCHANGED <<impl, students_table, status, status_hist, counts, tables, n_photos,
                   photo_idx, all_results, final_results, bk, history>>

\* lines 68-104: one iteration of the loop over classroom_photos
BgPhoto(photo) ==
    /\ impl = "app" /\ pc = "photos" /\ photo_idx <= n_photos
    /\ LET res == AppPhotoResult(photo, registered_students)
       IN  IF res # None
           THEN /\ all_results' = Append(all_results, res[1])
                /\ ok_photos' = ok_photos + 1
                /\ Observe(EmbeddedFaces(photo))
           ELSE UNCHANGED <<all_results, history>>
    /\ photo_idx' = photo_idx + 1
    /\ UNCHANGED <<impl, roster_reads, students_table, status, status_hist, counts, tables, pc,
                   n_photos, registered_students, final_results, bk, raised>>

\* lines 106-118: merge, or the fallback
BgMerge ==
    /\ impl = "app" /\ pc = "photos" /\ photo_idx > n_photos
    /\ LET fr == AppFinalResults(all_results, registered_students)
       IN  IF fr.ok
           THEN final_results' = Some(fr.val) /\ pc' = "save" /\ UNCHANGED raised
           ELSE ToHandler(fr.exc) /\ UNCHANGED final_results
    /\ UNCHANGED <<impl, roster_reads, students_table, status, status_hist, counts, tables, n_photos,
                   photo_idx, registered_students, all_results, bk, history>>

\* lines 121-157: the rows the three insert loops write, in order
RecordRows(fr) ==
    [i \in 1..Len(fr.present_students) |->
        [student_id |-> fr.present_students[i].student_id, status |-> "present"]]
    \o [i \in 1..Len(fr.absent_students) |->
        [student_id |-> fr.absent_students[i].student_id, status |-> "absent"]]

\* lines 121-157: k inserts succeed; the next one, if any is left, raises.
\* The insert that raises is one of the first MaxFailedInsert + 1.
BgSaveRecords(k) ==
    /\ impl = "app" /\ pc = "save"
    /\ LET fr == final_results[1]
           rows == RecordRows(fr)
           total == Len(rows) + Len(fr.unknown_faces)
       IN  /\ k <= total
           /\ k = total \/ k <= MaxFailedInsert
           /\ attendance_records' =
                  attendance_records \o SubSeq(rows, 1, IF k < Len(rows) THEN k ELSE Len(rows))
           /\ unknown_rows' =
                  unknown_rows \o SubSeq(fr.unknown_faces, 1,
                                         IF k > Len(rows) THEN k - Len(rows) ELSE 0)
           /\ IF k = total THEN pc' = "finish" /\ UNCHANGED raised ELSE ToHandler("db")
    /\ UNCHANGED <<impl, roster_reads, students_table, status, status_hist, counts, n_photos,
                   photo_idx, task_locals, history>>

\* a variant in which a statement after the final update raises
BgFinishThenFail(db_ok) ==
    /\ impl = "app" /\ pc = "finish"
    /\ WriteStatus("completed")
    /\ counts' = Some([present |-> final_results[1].total_present,
                       absent |-> final_results[1].total_absent,
                       unknown |-> final_results[1].total_unknown_faces])
    /\ ToHandler("db")
    /\ UNCHANGED <<impl, roster_reads, students_table, tables, n_photos, photo_idx, task_locals,
                   history>>

\* a variant that writes the counts in an update of their own, before the
\* update of the status
BgFinishCountsFirst(db_ok) ==
    /\ impl = "app" /\ pc = "finish"
    /\ counts' = Some([present |-> final_results[1].total_present,
                       absent |-> final_results[1].total_absent,
                       unknown |-> final_results[1].total_unknown_faces])
    /\ IF db_ok
       THEN WriteStatus("completed") /\ pc' = "done" /\ UNCHANGED raised
       ELSE ToHandler("db") /\ UNCHANGED <<status, status_hist>>
    /\ UNCHANGED <<impl, roster_reads, students_table, tables, n_photos, photo_idx, task_locals,
                   history>>

\* lines 160-169: the counts and 'completed' are written in one update
BgFinish(db_ok) ==
    /\ impl = "app" /\ pc = "finish"
    /\ IF db_ok
       THEN /\ WriteStatus("completed")
            /\ counts' = Some([present |-> final_results[1].total_present,
                               absent |-> final_results[1].total_absent,
                               unknown |-> final_results[1].total_unknown_faces])
            /\ pc' = "done"
            /\ UNCHANGED raised
       ELSE ToHandler("db") /\ UNCHANGED <<status, status_hist, counts>>
    /\ UNCHANGED <<impl, roster_reads, students_table, tables, n_photos, photo_idx, task_locals,
                   history>>

\* lines 173-180: update processing_status = 'failed'; when this write
\* raises too, the exception leaves the task
BgHandler(db_ok) ==
    /\ impl = "app" /\ pc = "handler"
    /\ IF db_ok THEN WriteStatus("failed") ELSE UNCHANGED <<status, status_hist>>
    /\ pc' = "done"
    /\ UNCHANGED <<impl, roster_reads, students_table, counts, tables, n_photos, photo_idx,
                   task_locals, raised, history>>

\* ------------------------------------------------------------ backend
\* create_session (routers/attendance.py 29-46): the row is inserted with
\* status "processing" and zero totals, and the task is enqueued
create_session(n) ==
    /\ impl = "backend" /\ pc = "idle"
    /\ WriteStatus("processing")
    /\ counts' = Some([present |-> 0, absent |-> 0, unknown |-> 0])
    /\ n_photos' = n
    /\ pc' = "queued"
    /\ UNCHANGED <<impl, roster_reads, students_table, tables, photo_idx, task_locals, raised,
                   history>>

\* the worker runs process_attendance; match_faces starts with
\* _load_students (services/matching.py 11-39)
BkLoadStudents(db_ok) ==
    /\ impl = "backend" /\ pc = "queued"
    /\ IF db_ok
       THEN /\ registered_students' = students_table
            /\ roster_reads' = Append(roster_reads, students_table)
            /\ pc' = "photos" /\ UNCHANGED raised
       ELSE ToHandler("db") /\ UNCHANGED <<registered_students, roster_reads>>
    /\ UNCHANGED <<impl, students_table, status, status_hist, counts, tables, n_photos,
                   photo_idx, all_results, final_results, bk, history>>

\* a variant of the loop that loads the students again for every photo
BkPhotoRereads(photo) ==
    /\ impl = "backend" /\ pc = "photos" /\ photo_idx <= n_photos
    /\ registered_students' = students_table
    /\ roster_reads' = Append(roster_reads, students_table)
    /\ LET r == BackendPhoto(photo, students_table, bk)
       IN  IF r.ok
           THEN /\ bk' = r.val
                /\ photo_idx' = photo_idx + 1
                /\ ok_photos' = IF Len(EmbeddedFaces(photo)) > 0
                                THEN ok_photos + 1 ELSE ok_photos
                /\ Observe(EmbeddedFaces(photo))
                /\ UNCHANGED <<pc, raised>>
           ELSE ToHandler(r.exc) /\ UNCHANGED <<bk, photo_idx, history>>
    /\ UNCHANGED <<impl, students_table, status, status_hist, counts, tables, n_photos,
                   all_results, final_results>>

\* services/matching.py 43-88: one iteration of the loop over the photos
BkPhoto(photo) ==
    /\ impl = "backend" /\ pc = "photos" /\ photo_idx <= n_photos
    /\ LET r == BackendPhoto(photo, registered_students, bk)
       IN  IF r.ok
           THEN /\ bk' = r.val
                /\ photo_idx' = photo_idx + 1
                /\ ok_photos' = IF Len(EmbeddedFaces(photo)) > 0
                                THEN ok_photos + 1 ELSE ok_photos
                /\ Observe(EmbeddedFaces(photo))
                /\ UNCHANGED <<pc, raised>>
           ELSE ToHandler(r.exc) /\ UNCHANGED <<bk, photo_idx, history>>
    /\ UNCHANGED <<impl, roster_reads, students_table, status, status_hist, counts, tables, n_photos,
                   registered_students, all_results, final_results>>

\* services/matching.py 90-103 and routers/attendance.py 91-97: the result
\* is computed and written to the row together with status "completed"
BkFinish(db_ok) ==
    /\ impl = "backend" /\ pc = "photos" /\ photo_idx > n_photos
    /\ LET results == BackendResults(registered_students, bk)
       IN  /\ final_results' = Some(results)
           /\ IF db_ok
              THEN /\ WriteStatus("completed")
                   /\ counts' = Some(results.totals)
                   /\ pc' = "done"
                   /\ UNCHANGED raised
              ELSE ToHandler("db") /\ UNCHANGED <<status, status_hist, counts>>
    /\ UNCHANGED <<impl, roster_reads, students_table, tables, n_photos, photo_idx,
                   registered_students, all_results, bk, history>>

\* routers/attendance.py 101-103: update status = "error"; when this write
\* raises too, the exception reaches TaskQueue._run, which logs it
BkHandler(db_ok) ==
    /\ impl = "backend" /\ pc = "handler"
    /\ IF db_ok THEN WriteStatus("error") ELSE UNCHANGED <<status, status_hist>>
    /\ pc' = "done"
    /\ UNCHANGED <<impl, roster_reads, students_table, counts, tables, n_photos, photo_idx,
                   task_locals, raised, history>>

\* ======================================================================
\* one photograph through the matcher
\* ======================================================================
VARIABLES
    match_impl,    \* "app" or "backend"
    match_roster,  \* the roster handed to the matcher
    match_photo,   \* the photograph, once chosen
    match_out,     \* None (nothing returned: skipped, or an exception) or
                   \* the result
    match_pc       \* "ready" or "matched"

match_vars == <<match_impl, match_roster, match_photo, match_out, match_pc>>

MatchInit ==
    /\ match_impl \in {"app", "backend"}
    /\ match_roster \in Rosters
    /\ match_photo = None
    /\ match_out = None
    /\ match_pc = "ready"

\* match_faces on one photograph (services/matching.py 38-103)
match_faces(photo, students) ==
    LET r == BackendPhoto(photo, students, [present_map |-> <<>>, unknown |-> <<>>])
    IN  IF r.ok THEN Some(BackendResults(students, r.val)) ELSE None

\* app: the photo goes through detection, normalization, embedding and
\* process_attendance
MatchApp(photo) ==
    /\ match_impl = "app" /\ match_pc = "ready"
    /\ match_photo' = Some(photo)
    /\ match_out' = AppPhotoResult(photo, match_roster)
    /\ match_pc' = "matched"
    /\ UNCHANGED <<match_impl, match_roster>>

\* backend: match_faces
MatchBackend(photo) ==
    /\ match_impl = "backend" /\ match_pc = "ready"
    /\ match_photo' = Some(photo)
    /\ match_out' = match_faces(photo, match_roster)
    /\ match_pc' = "matched"
    /\ UNCHANGED <<match_impl, match_roster>>

\* ======================================================================
\* liveness  (src/app/services/liveness_detection.py,
\*            src/facial_recognition_backend/app/services/liveness_detection.py)
\* ======================================================================
\* required_poses, in the order the grouping dictionaries list them
required_poses == <<"center", "tilt_down", "turn_right", "turn_left">>

\* A submitted frame is what the pipeline makes of it:
\*   "good"          a face in the expected pose that normalizes and embeds
\*   "no_embedding"  a face in the expected pose; the extractor fails on it
\*   "low_quality"   a face in the expected pose whose aligned crop fails
\*                   quality_check (not sharp, badly lit or without
\*                   contrast); it normalizes and embeds
\*   "wrong_pose"    a face whose yaw or pitch is outside the pose's ranges
\*   "no_face"       no usable face (process_frame gives None,
\*                   estimate_head_pose raises)
\*   "undecodable"   the base64 does not decode
FrameKinds ==
    {"good", "no_embedding", "low_quality", "wrong_pose", "no_face", "undecodable"}

FrameLists == SeqsUpTo(FrameKinds, MaxFrames)

\* process_frame gives frame data with is_valid_pose (app, line 223) / the
\* angles are inside the ranges of the pose (backend, line 77)
InPose(kind) == kind \in {"good", "no_embedding", "low_quality"}

\* lines 220-224 (app), 70-78 (backend): the frames that are accepted
ValidFrames(frames) == SelectSeq(frames, InPose)

\* group_frames_by_pose of the backend drops the frames that do not decode
Decoded(frames) ==
    LET Decodes(kind) == kind # "undecodable"
    IN  SelectSeq(frames, Decodes)

\* how many of the frames at the positions sel embed
Embeddable(frames, sel) ==
    Cardinality({i \in sel : frames[i] \in {"good", "low_quality"}})

\* line 227: enough accepted frames
PoseValid(valid_frames) == Len(valid_frames) >= LIVENESS_MIN_FRAMES_PER_POSE

\* lines 79-80 of the backend: the pose passes with one accepted frame
BackendPoseValid(valid_frames) == Len(valid_frames) > 0

\* lines 235-243: sorted by sharpness, the first three are kept; the
\* sharpness is left open, so any three of the accepted frames may be kept
TopThree(valid_frames) ==
    {sel \in SUBSET (1..Len(valid_frames)) :
        Cardinality(sel) = IF Len(valid_frames) < 3 THEN Len(valid_frames) ELSE 3}

\* lines 249-255: the poses that are missing or invalid
missing_poses(validations) ==
    SelectSeq(required_poses,
              LAMBDA pose : \A i \in 1..Len(validations) :
                               required_poses[i] = pose => ~validations[i])

VARIABLES
    live_impl,         \* "app" or "backend"
    live_pc,           \* "poses" or "done"
    live_pose,         \* index in required_poses of the pose the loop is at
    pose_validations,  \* app: pose_valid of the poses done
    live_faces,        \* app: len(all_normalized_faces)
    live_embeddings,   \* the embeddings the kept frames give (a count)
    live_result,       \* None, or the dictionary returned
    live_accepted,     \* history: the accepted frames of each pose done
    live_rest,         \* history: the accepted frames of each pose of the
                       \* request that the loop did not reach
    live_seen          \* history: the kinds of frame that were counted as
                       \* accepted, and that were given to the extractor

live_vars ==
    <<live_impl, live_pc, live_pose, pose_validations, live_faces, live_embeddings,
      live_result, live_accepted, live_rest, live_seen>>

LiveInit ==
    /\ live_impl \in {"app", "backend"}
    /\ live_pc = "poses"
    /\ live_pose = 1
    /\ pose_validations = <<>>
    /\ live_faces = 0
    /\ live_embeddings = 0
    /\ live_result = None
    /\ live_accepted = <<>>
    /\ live_rest = <<>>
    /\ live_seen = [counted |-> {}, used |-> {}]

\* history: valid_frames were counted, those at the positions sel went to
\* the embedding extractor
Seen(valid_frames, sel) ==
    [counted |-> live_seen.counted \cup {valid_frames[i] : i \in 1..Len(valid_frames)},
     used |-> live_seen.used \cup {valid_frames[i] : i \in sel}]

\* process_liveness_video, lines 215-243: one iteration of the loop
LivePose(frames, sel) ==
    /\ live_impl = "app" /\ live_pc = "poses" /\ live_pose <= Len(required_poses)
    /\ sel \in TopThree(ValidFrames(frames))
    /\ pose_validations' = Append(pose_validations, PoseValid(ValidFrames(frames)))
    /\ IF PoseValid(ValidFrames(frames))
       THEN /\ live_faces' = live_faces + Cardinality(sel)
            /\ live_embeddings' = live_embeddings + Embeddable(ValidFrames(frames), sel)
       ELSE UNCHANGED <<live_faces, live_embeddings>>
    /\ live_accepted' = Append(live_accepted, Len(ValidFrames(frames)))
    /\ live_pose' = live_pose + 1
    /\ live_seen' = Seen(ValidFrames(frames),
                          IF PoseValid(ValidFrames(frames)) THEN sel ELSE {})
    /\ UNCHANGED <<live_impl, live_pc, live_result, live_rest>>

\* process_liveness_video, lines 245-270
LiveFinish ==
    /\ live_impl = "app" /\ live_pc = "poses" /\ live_pose > Len(required_poses)
    /\ live_result' =
          Some([is_live |-> /\ \A i \in 1..Len(pose_validations) : pose_validations[i]
                            /\ live_faces > 0
                            /\ live_embeddings > 0,
                poses_detected |-> pose_validations,
                embeddings |-> IF \A i \in 1..Len(pose_validations) : pose_validations[i]
                               THEN live_embeddings ELSE 0,
                missing |-> missing_poses(pose_validations)])
    /\ live_pc' = "done"
    /\ UNCHANGED <<live_impl, live_pose, pose_validations, live_faces, live_embeddings,
                   live_accepted, live_rest, live_seen>>

\* the poses after pose number p in the request: the loop of the backend
\* returns before it looks at them, whatever their frames are; each is
\* given by the number of its frames that would be accepted
RestOfRequest(p) == [1..(Len(required_poses) - p) -> 0..MaxFrames]

\* process_liveness of the backend, lines 66-87: one iteration of the loop
BkLivePose(frames) ==
    /\ live_impl = "backend" /\ live_pc = "poses" /\ live_pose <= Len(required_poses)
    /\ live_accepted' = Append(live_accepted, Len(ValidFrames(Decoded(frames))))
    /\ IF Len(Decoded(frames)) < LIVENESS_MIN_FRAMES_PER_POSE
       THEN /\ live_result' = Some([valid |-> FALSE, error |-> "Not enough frames",
                                    pose |-> required_poses[live_pose]])
            /\ live_pc' = "done"
            /\ live_rest' \in RestOfRequest(live_pose)
            /\ UNCHANGED <<live_pose, live_embeddings, live_seen>>
       ELSE IF ~BackendPoseValid(ValidFrames(Decoded(frames)))
       THEN /\ live_result' = Some([valid |-> FALSE, error |-> "No valid frames",
                                    pose |-> required_poses[live_pose]])
            /\ live_pc' = "done"
            /\ live_rest' \in RestOfRequest(live_pose)
            /\ UNCHANGED <<live_pose, live_embeddings, live_seen>>
       ELSE /\ live_embeddings' =
                  live_embeddings
                      + Embeddable(ValidFrames(Decoded(frames)),
                                   {i \in 1..3 : i <= Len(ValidFrames(Decoded(frames)))})
            /\ live_pose' = live_pose + 1
            /\ live_seen' = Seen(ValidFrames(Decoded(frames)),
                                  {i \in 1..3 : i <= Len(ValidFrames(Decoded(frames)))})
            /\ UNCHANGED <<live_pc, live_result, live_rest>>
    /\ UNCHANGED <<live_impl, pose_validations, live_faces>>

\* process_liveness of the backend, lines 88-90
BkLiveFinish ==
    /\ live_impl = "backend" /\ live_pc = "poses" /\ live_pose > Len(required_poses)
    /\ live_result' =
          IF live_embeddings = 0
          THEN Some([valid |-> FALSE, error |-> "No valid embeddings extracted",
                     pose |-> ""])
          ELSE Some([valid |-> TRUE, error |-> "", pose |-> ""])
    /\ live_pc' = "done"
    /\ UNCHANGED <<live_impl, live_pose, pose_validations, live_faces, live_embeddings,
                   live_accepted, live_rest, live_seen>>

\* ======================================================================
\* TaskQueue  (src/facial_recognition_backend/app/queue.py)
\* ======================================================================
\* The request handlers and the lifespan hooks are the callers; each runs
\* create_session (which enqueues), start() or stop(), one statement at a
\* time.  A worker is a thread that executes _run.
VARIABLES
    q_queue,     \* self._queue: the session tasks waiting, oldest first
    q_lock,      \* self._lock: <<"free", 0>>, <<"caller", c>> or <<"worker", w>>
    q_started,   \* self._started
    q_thread,    \* self._worker: "new" until Thread.start() has been called
    q_stop,      \* self._stop_event
    workers,     \* the threads executing _run: [pc, task]
    callers,     \* the callers: [pc, task]
    q_created,   \* the attendance sessions created so far
    q_enqueued,  \* history: the tasks in the order their enqueue calls completed
    q_run,       \* history: the tasks in the order the worker called them
    q_failed     \* history: the tasks that raised an exception

q_history == <<q_enqueued, q_run, q_failed>>
queue_vars ==
    <<q_queue, q_lock, q_started, q_thread, q_stop, workers, callers, q_created,
      q_enqueued, q_run, q_failed>>

Callers == 1..MaxCallers
Free == <<"free", 0>>

QueueInit ==
    /\ q_queue = <<>>
    /\ q_lock = Free
    /\ q_started = FALSE
    /\ q_thread = "new"
    /\ q_stop = FALSE
    /\ workers = <<>>
    /\ callers = [c \in Callers |-> [pc |-> "idle", task |-> 0]]
    /\ q_created = 0
    /\ q_enqueued = <<>>
    /\ q_run = <<>>
    /\ q_failed = {}

\* the caller c moves to pc with the task it carries
CallerAt(c, pc_, task) == callers' = [callers EXCEPT ![c] = [pc |-> pc_, task |-> task]]
WorkerAt(w, pc_, task) == workers' = [workers EXCEPT ![w] = [pc |-> pc_, task |-> task]]

\* a thread that enters _run
SpawnAlways ==
    /\ workers' = Append(workers, [pc |-> "loop", task |-> 0])
    /\ q_thread' = "started"

\* line 19, self._worker.start() on the one Thread made at line 12: it runs
\* _run the first time; Thread.start() raises RuntimeError on a thread
\* that was started before
WorkerStart ==
    IF q_thread = "new"
    THEN /\ workers' = Append(workers, [pc |-> "loop", task |-> 0])
         /\ q_thread' = "started"
    ELSE UNCHANGED <<workers, q_thread>>

\* start(), lines 16-17: the test of self._started
StartCheck(c) ==
    /\ callers[c].pc = "idle"
    /\ IF q_started THEN UNCHANGED callers ELSE CallerAt(c, "start_set", 0)
    /\ UNCHANGED <<q_queue, q_lock, q_started, q_thread, q_stop, workers, q_created,
                   q_history>>

\* start(), line 18
StartSet(c) ==
    /\ callers[c].pc = "start_set"
    /\ q_started' = TRUE
    /\ CallerAt(c, "start_thread", 0)
    /\ UNCHANGED <<q_queue, q_lock, q_thread, q_stop, workers, q_created,
                   q_history>>

\* start(), line 19
StartThread(c) ==
    /\ callers[c].pc = "start_thread"
    /\ WorkerStart
    /\ CallerAt(c, "idle", 0)
    /\ UNCHANGED <<q_queue, q_lock, q_started, q_stop, q_created,
                   q_history>>

\* stop(), line 22
QueueStop(c) ==
    /\ callers[c].pc = "idle"
    /\ q_stop' = TRUE
    /\ UNCHANGED <<q_queue, q_lock, q_started, q_thread, workers, callers, q_created,
                   q_history>>

\* create_session, routers/attendance.py 34-43: the session row is inserted
CreateInsert(c) ==
    /\ callers[c].pc = "idle"
    /\ q_created < MaxTasks
    /\ q_created' = q_created + 1
    /\ CallerAt(c, "enqueue", q_created + 1)
    /\ UNCHANGED <<q_queue, q_lock, q_started, q_thread, q_stop, workers, q_history>>

\* enqueue, line 25: the lock is taken
EnqueueAcquire(c) ==
    /\ callers[c].pc = "enqueue"
    /\ q_lock = Free
    /\ q_lock' = <<"caller", c>>
    /\ CallerAt(c, "append", callers[c].task)
    /\ UNCHANGED <<q_queue, q_started, q_thread, q_stop, workers, q_created,
                   q_history>>

\* enqueue, line 26, and the release of the lock
EnqueueAppend(c) ==
    /\ callers[c].pc = "append"
    /\ q_queue' = Append(q_queue, callers[c].task)
    /\ q_lock' = Free
    /\ CallerAt(c, "idle", 0)
    /\ q_enqueued' = Append(q_enqueued, callers[c].task)
    /\ UNCHANGED <<q_started, q_thread, q_stop, workers, q_created, q_run, q_failed>>

\* _run, line 29: the test of the stop event
RunLoop(w) ==
    /\ workers[w].pc = "loop"
    /\ WorkerAt(w, IF q_stop THEN "exited" ELSE "acquire", 0)
    /\ UNCHANGED <<q_queue, q_lock, q_started, q_thread, q_stop, callers, q_created,
                   q_history>>

\* _run, line 31: the lock is taken
RunAcquire(w) ==
    /\ workers[w].pc = "acquire"
    /\ q_lock = Free
    /\ q_lock' = <<"worker", w>>
    /\ WorkerAt(w, "locked", 0)
    /\ UNCHANGED <<q_queue, q_started, q_thread, q_stop, callers, q_created,
                   q_history>>

\* deque.pop: the newest entry is taken
pop(queue) ==
    [task |-> queue[Len(queue)], rest |-> SubSeq(queue, 1, Len(queue) - 1)]

\* deque.popleft: the oldest entry is taken
popleft(queue) == [task |-> Head(queue), rest |-> Tail(queue)]

\* _run, lines 32-34: popleft when there is a task, and the release
RunPop(w) ==
    /\ workers[w].pc = "locked"
    /\ IF Len(q_queue) > 0
       THEN /\ q_queue' = popleft(q_queue).rest
            /\ WorkerAt(w, "call", popleft(q_queue).task)
       ELSE UNCHANGED q_queue /\ WorkerAt(w, "wait", 0)
    /\ q_lock' = Free
    /\ UNCHANGED <<q_started, q_thread, q_stop, callers, q_created, q_history>>

\* _run, lines 35-36: the wait of 0.2 s ends
RunWait(w) ==
    /\ workers[w].pc = "wait"
    /\ WorkerAt(w, "loop", 0)
    /\ UNCHANGED <<q_queue, q_lock, q_started, q_thread, q_stop, callers, q_created,
                   q_history>>

\* _run, lines 37-39: the task is called
RunCall(w) ==
    /\ workers[w].pc = "call"
    /\ WorkerAt(w, "running", workers[w].task)
    /\ q_run' = Append(q_run, workers[w].task)
    /\ UNCHANGED <<q_queue, q_lock, q_started, q_thread, q_stop, callers, q_created,
                   q_enqueued, q_failed>>

\* a worker that lets the exception of a task leave the thread
Uncaught(w) == WorkerAt(w, "exited", 0)

\* _run, lines 40-41: the exception of a task is caught and logged, and
\* the loop goes on
Caught(w) == WorkerAt(w, "loop", 0)

\* _run, line 39: the task returns
RunReturn(w) ==
    /\ workers[w].pc = "running"
    /\ WorkerAt(w, "loop", 0)
    /\ UNCHANGED <<q_queue, q_lock, q_started, q_thread, q_stop, callers, q_created,
                   q_history>>

\* _run, lines 39-41: the task raises an Exception
RunRaise(w) ==
    /\ workers[w].pc = "running"
    /\ Caught(w)
    /\ q_failed' = q_failed \cup {workers[w].task}
    /\ UNCHANGED <<q_queue, q_lock, q_started, q_thread, q_stop, callers, q_created,
                   q_enqueued, q_run>>

\* the tasks being executed
Running == {w \in 1..Len(workers) : workers[w].pc = "running"}

\* ======================================================================
\* duplicate removal of the detector  (src/app/services/face_detection.py,
\*     src/facial_recognition_backend/app/services/face_detection.py)
\* ======================================================================
\* A bounding box is <<x1, y1, x2, y2>> with x1 <= x2 and y1 <= y2; a box
\* of width or height 0 has area 0.
Boxes ==
    {b \in (0..MaxCoord) \X (0..MaxCoord) \X (0..MaxCoord) \X (0..MaxCoord) :
        b[1] <= b[3] /\ b[2] <= b[4]}

Max2(a, b) == IF a >= b THEN a ELSE b
Min2(a, b) == IF a <= b THEN a ELSE b

\* the terms of iou: interW, interH and the two areas
InterW(boxA, boxB) == Max2(0, Min2(boxA[3], boxB[3]) - Max2(boxA[1], boxB[1]))
InterH(boxA, boxB) == Max2(0, Min2(boxA[4], boxB[4]) - Max2(boxA[2], boxB[2]))
InterArea(boxA, boxB) == InterW(boxA, boxB) * InterH(boxA, boxB)
Area(box) == (box[3] - box[1]) * (box[4] - box[2])
UnionArea(boxA, boxB) == Area(boxA) + Area(boxB) - InterArea(boxA, boxB)

\* A quotient is kept as numerator and denominator; 0/0 is the nan of a
\* floating-point division.
Quotient(n, d) == [num |-> n, den |-> d]
NaN == Quotient(0, 0)

\* FaceDetectionService.iou (app, lines 110-129): 0 when the union is 0
AppIou(boxA, boxB) ==
    IF UnionArea(boxA, boxB) = 0 THEN Ok(Quotient(0, 1))
    ELSE Ok(Quotient(InterArea(boxA, boxB), UnionArea(boxA, boxB)))

\* iou (backend, lines 29-38): the division is not guarded.  max(0, d)
\* gives the int 0 unless d > 0, so with a union of 0 the numerator is the
\* Python int 0 when interW and interH are both 0, or when the coordinates
\* are Python numbers: the division raises ZeroDivisionError.  With numpy
\* coordinates and a positive interW or interH the numerator is a numpy
\* scalar and the division gives nan.
BackendIou(boxA, boxB, numpy) ==
    IF UnionArea(boxA, boxB) = 0
    THEN IF numpy /\ (InterW(boxA, boxB) > 0 \/ InterH(boxA, boxB) > 0)
         THEN Ok(NaN)
         ELSE Raise("ZeroDivisionError")
    ELSE Ok(Quotient(InterArea(boxA, boxB), UnionArea(boxA, boxB)))

iou(imp, boxA, boxB, numpy) ==
    IF imp = "app" THEN AppIou(boxA, boxB) ELSE BackendIou(boxA, boxB, numpy)

\* iou_threshold / threshold, the default of both remove_duplicates: 0.5
iou_threshold == Quotient(1, 2)

\* comparisons of quotients; every comparison with nan is false
Greater(q, r) == q.den > 0 /\ r.den > 0 /\ q.num * r.den > r.num * q.den
Less(q, r) == Greater(r, q)

\* The detections given to remove_duplicates: X, Y, Z, H overlap one
\* another (X-Y and X-Z by 2/3, Y-Z by 1/3, X-H by exactly 1/2, Y-H by 3/4),
\* P is a point and L a line (both of area 0).
DetectionBoxes ==
    {<<0, 0, 6, 1>>, <<0, 0, 4, 1>>, <<2, 0, 6, 1>>, <<0, 0, 3, 1>>,
     <<1, 1, 1, 1>>, <<0, 2, 4, 2>>}

\* the detection lists: face i of a list is [bbox, det], det its position
\* in the detector's output
DetectionLists ==
    {[i \in 1..Len(bs) |-> [bbox |-> bs[i], det |-> i]] :
        bs \in SeqsUpTo(DetectionBoxes, MaxDetections)}

\* whether face f is a duplicate of the kept face uf, or the exception of iou
\* app, line 138:  iou(f, uf) > iou_threshold
\* backend, line 43:  not (iou(face, u) < threshold)
DuplicateOf(imp, f, uf, numpy) ==
    LET v == iou(imp, f.bbox, uf.bbox, numpy)
    IN  IF ~v.ok THEN v
        ELSE Ok(IF imp = "app" THEN Greater(v.val, iou_threshold)
                ELSE ~Less(v.val, iou_threshold))

\* the inner loop over the kept faces, from the k-th on: Ok(keep) or the
\* exception; both loops stop at the first duplicate
RECURSIVE KeepLoop(_, _, _, _, _)
KeepLoop(imp, f, unique_faces, k, numpy) ==
    IF k > Len(unique_faces) THEN Ok(TRUE)
    ELSE LET d == DuplicateOf(imp, f, unique_faces[k], numpy)
         IN  IF ~d.ok THEN d
             ELSE IF d.val THEN Ok(FALSE)
             ELSE KeepLoop(imp, f, unique_faces, k + 1, numpy)

\* a variant that compares a face with the detection before it only
KeepAfterPrevious(imp, faces, i, unique_faces, numpy) ==
    IF i = 1 THEN Ok(TRUE)
    ELSE LET d == DuplicateOf(imp, faces[i], faces[i - 1], numpy)
         IN  IF d.ok THEN Ok(~d.val) ELSE d

\* whether faces[i] is kept, given the faces kept so far
Keep(imp, faces, i, unique_faces, numpy) ==
    KeepLoop(imp, faces[i], unique_faces, 1, numpy)

\* remove_duplicates (app 131-144, backend 40-45): Ok(unique faces) or the
\* exception that leaves it
RECURSIVE RemoveLoop(_, _, _, _, _)
RemoveLoop(imp, faces, i, unique_faces, numpy) ==
    IF i > Len(faces) THEN Ok(unique_faces)
    ELSE LET keep == Keep(imp, faces, i, unique_faces, numpy)
         IN  IF ~keep.ok THEN keep
             ELSE RemoveLoop(imp, faces, i + 1,
                             IF keep.val THEN Append(unique_faces, faces[i])
                             ELSE unique_faces,
                             numpy)

remove_duplicates(imp, faces, numpy) == RemoveLoop(imp, faces, 1, <<>>, numpy)

VARIABLES
    det_impl,    \* "app" or "backend"
    det_numpy,   \* the coordinates are numpy scalars (TRUE) or Python numbers
    det_pc,      \* "ready", "iou", "once" or "twice"
    det_boxes,   \* the two boxes given to iou
    det_iou,     \* what iou gave for them
    det_faces,   \* the list given to remove_duplicates
    det_once,    \* remove_duplicates(faces)
    det_twice    \* remove_duplicates(remove_duplicates(faces))

detect_vars ==
    <<det_impl, det_numpy, det_pc, det_boxes, det_iou, det_faces, det_once, det_twice>>

DetectInit ==
    /\ det_impl \in {"app", "backend"}
    /\ det_numpy \in BOOLEAN
    /\ det_pc = "ready"
    /\ det_boxes = None
    /\ det_iou = None
    /\ det_faces = <<>>
    /\ det_once = None
    /\ det_twice = None

\* a call of iou
DetIou(boxA, boxB) ==
    /\ det_pc = "ready"
    /\ det_boxes' = <<boxA, boxB>>
    /\ det_iou' = Some(iou(det_impl, boxA, boxB, det_numpy))
    /\ det_pc' = "iou"
    /\ UNCHANGED <<det_impl, det_numpy, det_faces, det_once, det_twice>>

\* a call of remove_duplicates
DetRemove(faces) ==
    /\ det_pc = "ready"
    /\ det_faces' = faces
    /\ det_once' = Some(remove_duplicates(det_impl, faces, det_numpy))
    /\ det_pc' = "once"
    /\ UNCHANGED <<det_impl, det_numpy, det_boxes, det_iou, det_twice>>

\* remove_duplicates applied to the list it returned
DetRemoveAgain ==
    /\ det_pc = "once" /\ det_once[1].ok
    /\ det_twice' = Some(remove_duplicates(det_impl, det_once[1].val, det_numpy))
    /\ det_pc' = "twice"
    /\ UNCHANGED <<det_impl, det_numpy, det_boxes, det_iou, det_faces, det_once>>

\* ======================================================================
\* the similarity of two embeddings  (compute_similarity of
\*     src/app/services/face_recognition.py, cosine_similarity of
\*     src/facial_recognition_backend/app/services/face_recognition.py)
\* ======================================================================
VARIABLES
    sim_impl,   \* "app" or "backend"
    sim_args,   \* None, or the two unit vectors given to the function
    sim_out     \* None, or the similarity returned, in hundredths

sim_vars == <<sim_impl, sim_args, sim_out>>

SimInit ==
    /\ sim_impl \in {"app", "backend"}
    /\ sim_args = None
    /\ sim_out = None

\* app: face_recognizer.compute_similarity(embedding1, embedding2)
SimApp(embedding1, embedding2) ==
    /\ sim_impl = "app" /\ sim_args = None
    /\ sim_args' = Some(<<embedding1, embedding2>>)
    /\ sim_out' = Some(compute_similarity(embedding1, embedding2))
    /\ UNCHANGED sim_impl

\* backend: cosine_similarity(emb1, emb2)
SimBackend(emb1, emb2) ==
    /\ sim_impl = "backend" /\ sim_args = None
    /\ sim_args' = Some(<<emb1, emb2>>)
    /\ sim_out' = Some(cosine_similarity(emb1, emb2))
    /\ UNCHANGED sim_impl

\* ======================================================================
\* student registration  (src/app/routers/registration.py,
\*     src/facial_recognition_backend/app/routers/registration.py)
\* ======================================================================
\* The endpoints keep no state between requests but the students table.
\* A list of embeddings is one of 1..MaxEmbeddingLists, and 0 is the empty
\* list; a student is known by the admission number, within one unit.
AdmissionNumbers == 1..MaxAdmissions
EmbeddingLists == 1..MaxEmbeddingLists
NoEmbeddings == 0

VARIABLES
    reg_impl,       \* "app" or "backend"
    reg_students,   \* the students table: admission number -> embeddings
    reg_response,   \* the last response: <<endpoint, answer, embeddings>>
    reg_issued      \* history: <<admission number, embeddings>> of every
                    \* liveness check that answered live (the app's check
                    \* carries no admission number: 0 stands for the unit)

reg_vars == <<reg_impl, reg_students, reg_response, reg_issued>>

RegInit ==
    /\ reg_impl \in {"app", "backend"}
    /\ reg_students = <<>>
    /\ reg_response = <<"none", "none", NoEmbeddings>>
    /\ reg_issued = {}

\* students.insert / the row after an update of its embeddings
WithStudent(table, admission_number, embeddings) ==
    [a \in DOMAIN table \cup {admission_number} |->
        IF a = admission_number THEN embeddings ELSE table[a]]

\* ---------------------------------------------------------------- app
\* start_registration (lines 53-94): the token and the duplicate check
AppStartRegistration(admission_number, token_ok, db_ok) ==
    /\ reg_impl = "app"
    /\ reg_response' =
          <<"start",
            IF ~token_ok THEN "invalid_token"
            ELSE IF ~db_ok THEN "error"
            ELSE IF admission_number \in DOMAIN reg_students THEN "duplicate"
            ELSE "ok",
            NoEmbeddings>>
    /\ UNCHANGED <<reg_impl, reg_students, reg_issued>>

\* check_liveness (lines 97-143): live is the outcome of
\* process_liveness_video on the frames, embeddings what it extracted
check_liveness(live, embeddings, token_ok) ==
    /\ reg_impl = "app"
    /\ reg_response' =
          IF ~token_ok THEN <<"liveness", "invalid_token", NoEmbeddings>>
          ELSE IF ~live THEN <<"liveness", "not_live", NoEmbeddings>>
          ELSE <<"liveness", "live", embeddings>>
    /\ reg_issued' = IF token_ok /\ live THEN reg_issued \cup {<<0, embeddings>>}
                     ELSE reg_issued
    /\ UNCHANGED <<reg_impl, reg_students>>

\* complete_registration (lines 146-234): embeddings is the list the
\* request carries (0 when it is empty or missing)
AppCompleteRegistration(admission_number, embeddings, token_ok, db_ok) ==
    /\ reg_impl = "app"
    /\ IF embeddings = NoEmbeddings
       THEN /\ reg_response' = <<"complete", "missing_fields", NoEmbeddings>>
            /\ UNCHANGED reg_students
       ELSE IF ~token_ok
       THEN /\ reg_response' = <<"complete", "invalid_token", NoEmbeddings>>
            /\ UNCHANGED reg_students
       ELSE IF ~db_ok
       THEN /\ reg_response' = <<"complete", "error", NoEmbeddings>>
            /\ UNCHANGED reg_students
       ELSE IF admission_number \in DOMAIN reg_students
       THEN /\ reg_response' = <<"complete", "duplicate", NoEmbeddings>>
            /\ UNCHANGED reg_students
       ELSE /\ reg_students' = WithStudent(reg_students, admission_number, embeddings)
            /\ reg_response' = <<"complete", "ok", embeddings>>
    /\ UNCHANGED <<reg_impl, reg_issued>>

\* ------------------------------------------------------------ backend
\* start_registration (lines 41-54): the row is inserted without embeddings
BkStartRegistration(admission_number) ==
    /\ reg_impl = "backend"
    /\ IF admission_number \in DOMAIN reg_students
       THEN /\ reg_response' = <<"start", "duplicate", NoEmbeddings>>
            /\ UNCHANGED reg_students
       ELSE /\ reg_students' = WithStudent(reg_students, admission_number, NoEmbeddings)
            /\ reg_response' = <<"start", "ok", NoEmbeddings>>
    /\ UNCHANGED <<reg_impl, reg_issued>>

\* liveness_check (lines 68-74): valid is the outcome of process_liveness
liveness_check(admission_number, valid, embeddings) ==
    /\ reg_impl = "backend"
    /\ reg_response' = IF valid THEN <<"liveness", "live", embeddings>>
                       ELSE <<"liveness", "not_live", NoEmbeddings>>
    /\ reg_issued' = IF valid THEN reg_issued \cup {<<admission_number, embeddings>>}
                     ELSE reg_issued
    /\ UNCHANGED <<reg_impl, reg_students>>

\* complete_registration (lines 76-80): the update of the matching row
BkCompleteRegistration(admission_number, embeddings) ==
    /\ reg_impl = "backend"
    /\ reg_students' = IF admission_number \in DOMAIN reg_students
                       THEN WithStudent(reg_students, admission_number, embeddings)
                       ELSE reg_students
    /\ reg_response' = <<"complete", "ok", embeddings>>
    /\ UNCHANGED <<reg_impl, reg_issued>>

\* ======================================================================
\* multi-scale detection of the app  (src/app/services/face_detection.py,
\*     multi_scale_detect, crop_detected_faces, detect_faces_in_image)
\* ======================================================================
\* What the detector finds on an image: a detection is [bbox, det_score,
\* pass]; det_score is in hundredths, pass tells the loop that found it
\* ("primary": scales 640, 1024, 1280; "tiny": scales 320, 480).  The
\* scores are one below min_thresh, one between the two thresholds and one
\* above the base threshold; the first two boxes overlap by 2/3, the third
\* is apart.
ScaleScores == {5, 20, 90}
ScaleBoxes == {<<0, 0, 6, 1>>, <<0, 0, 4, 1>>, <<0, 2, 4, 3>>}

FoundBy(pass, n) ==
    {[i \in 1..Len(fs) |-> [bbox |-> fs[i][1], det_score |-> fs[i][2], pass |-> pass]] :
        fs \in SeqsUpTo(ScaleBoxes \X ScaleScores, n)}

\* lines 162-168 and 176-181: the detections of a loop at or above thresh
AtLeast(faces, thresh) ==
    LET Scores(f) == f.det_score >= thresh
    IN  SelectSeq(faces, Scores)

\* multi_scale_detect (lines 146-187): primary and tiny are what app.get
\* gives over the scales of the two loops
multi_scale_detect(primary, tiny) ==
    LET all_faces == AtLeast(primary, DETECTION_CONFIDENCE_THRESHOLD)
        retried == IF Len(all_faces) < ExpectedFaces
                   THEN all_faces \o AtLeast(tiny, min_thresh)
                   ELSE all_faces
    IN  remove_duplicates("app", retried, FALSE).val

\* crop_detected_faces (lines 189-231): the metadata of the faces kept
crop_detected_faces(face_details) ==
    AtLeast(face_details, DETECTION_CONFIDENCE_THRESHOLD)

VARIABLES
    ms_pc,        \* "image", "detected" or "returned"
    ms_primary,   \* what the detector gives at the primary scales
    ms_tiny,      \* what it gives at the tiny scales
    ms_details,   \* face_details: what multi_scale_detect returned
    ms_metadata   \* the metadata list detect_faces_in_image returns

ms_vars == <<ms_pc, ms_primary, ms_tiny, ms_details, ms_metadata>>

ScaleInit ==
    /\ ms_pc = "image"
    /\ ms_primary = <<>>
    /\ ms_tiny = <<>>
    /\ ms_details = <<>>
    /\ ms_metadata = <<>>

\* detect_faces_in_image, line 247
MsDetect(primary, tiny) ==
    /\ ms_pc = "image"
    /\ ms_primary' = primary
    /\ ms_tiny' = tiny
    /\ ms_details' = multi_scale_detect(primary, tiny)
    /\ ms_pc' = "detected"
    /\ UNCHANGED ms_metadata

\* detect_faces_in_image, lines 249-260
MsCrop ==
    /\ ms_pc = "detected"
    /\ ms_metadata' = IF Len(ms_details) = 0 THEN <<>>
                      ELSE crop_detected_faces(ms_details)
    /\ ms_pc' = "returned"
    /\ UNCHANGED <<ms_primary, ms_tiny, ms_details>>

vars ==
    <<session_vars, match_vars, live_vars, queue_vars, detect_vars, sim_vars, reg_vars,
      ms_vars>>

\* ---------------------------------------------------------------------
\* the specifications: each one runs one part of the system and leaves the
\* others as they are constructed
\* ---------------------------------------------------------------------
SessionIdle ==
    /\ SessionInit
    /\ impl = "app"
    /\ students_table = <<>>

MatchIdle ==
    /\ MatchInit
    /\ match_impl = "app"
    /\ match_roster = <<>>

LiveIdle ==
    /\ LiveInit
    /\ live_impl = "app"

DetectIdle ==
    /\ DetectInit
    /\ det_impl = "app"
    /\ det_numpy = FALSE

SimIdle ==
    /\ SimInit
    /\ sim_impl = "app"

\* the parts that only their own specification runs
RegIdle ==
    /\ RegInit
    /\ reg_impl = "app"

OthersIdle == DetectIdle /\ SimIdle /\ RegIdle /\ ScaleInit
others == <<detect_vars, sim_vars, reg_vars, ms_vars>>

not_session == <<match_vars, live_vars, queue_vars, others>>
not_match == <<session_vars, live_vars, queue_vars, others>>
not_live == <<session_vars, match_vars, queue_vars, others>>
not_queue == <<session_vars, match_vars, live_vars, others>>
not_detect ==
    <<session_vars, match_vars, live_vars, queue_vars, sim_vars, reg_vars, ms_vars>>
not_sim ==
    <<session_vars, match_vars, live_vars, queue_vars, detect_vars, reg_vars, ms_vars>>
not_reg ==
    <<session_vars, match_vars, live_vars, queue_vars, detect_vars, sim_vars, ms_vars>>
not_scales ==
    <<session_vars, match_vars, live_vars, queue_vars, detect_vars, sim_vars, reg_vars>>

\* attendance sessions, of both implementations; the position of the task
\* selects the step before its inputs are drawn
Init == SessionInit /\ MatchIdle /\ LiveIdle /\ QueueInit /\ OthersIdle
Next ==
    \/ pc = "idle" /\ \E n \in 1..MaxPhotos :
          create_attendance_session(n) /\ UNCHANGED not_session
    \/ pc = "start" /\ \E db_ok \in BOOLEAN :
          BgSetProcessing(db_ok) /\ UNCHANGED not_session
    \/ pc = "read" /\ \E db_ok \in BOOLEAN :
          BgReadRoster(db_ok) /\ UNCHANGED not_session
    \/ pc = "photos" /\ \E photo \in SessionPhotos :
          BgPhoto(photo) /\ UNCHANGED not_session
    \/ BgMerge /\ UNCHANGED not_session
    \/ pc = "save" /\ \E k \in 0..(MaxStudents + MaxFaces * MaxPhotos) :
          BgSaveRecords(k) /\ UNCHANGED not_session
    \/ pc = "finish" /\ \E db_ok \in BOOLEAN :
          BgFinish(db_ok) /\ UNCHANGED not_session
    \/ pc = "handler" /\ \E db_ok \in BOOLEAN :
          BgHandler(db_ok) /\ UNCHANGED not_session
    \/ pc = "idle" /\ \E n \in 1..MaxPhotos :
          create_session(n) /\ UNCHANGED not_session
    \/ pc = "queued" /\ \E db_ok \in BOOLEAN :
          BkLoadStudents(db_ok) /\ UNCHANGED not_session
    \/ pc = "photos" /\ \E photo \in SessionPhotos :
          BkPhoto(photo) /\ UNCHANGED not_session
    \/ pc = "photos" /\ \E db_ok \in BOOLEAN :
          BkFinish(db_ok) /\ UNCHANGED not_session
    \/ pc = "handler" /\ \E db_ok \in BOOLEAN :
          BkHandler(db_ok) /\ UNCHANGED not_session
    \/ StudentRegistered /\ UNCHANGED not_session
    \/ EmbeddingsChanged /\ UNCHANGED not_session
Spec == Init /\ [][Next]_vars

\* The task of a session, once submitted, is run to its end: the app hands
\* it to the framework's background tasks, the backend to the worker of
\* the task queue, and every step it takes returns or raises.
TaskStep ==
    \/ pc = "start" /\ \E db_ok \in BOOLEAN :
          BgSetProcessing(db_ok) /\ UNCHANGED not_session
    \/ pc = "read" /\ \E db_ok \in BOOLEAN :
          BgReadRoster(db_ok) /\ UNCHANGED not_session
    \/ pc = "photos" /\ \E photo \in SessionPhotos :
          BgPhoto(photo) /\ UNCHANGED not_session
    \/ BgMerge /\ UNCHANGED not_session
    \/ pc = "save" /\ \E k \in 0..(MaxStudents + MaxFaces * MaxPhotos) :
          BgSaveRecords(k) /\ UNCHANGED not_session
    \/ pc = "finish" /\ \E db_ok \in BOOLEAN :
          BgFinish(db_ok) /\ UNCHANGED not_session
    \/ pc = "handler" /\ \E db_ok \in BOOLEAN :
          BgHandler(db_ok) /\ UNCHANGED not_session
    \/ pc = "queued" /\ \E db_ok \in BOOLEAN :
          BkLoadStudents(db_ok) /\ UNCHANGED not_session
    \/ pc = "photos" /\ \E photo \in SessionPhotos :
          BkPhoto(photo) /\ UNCHANGED not_session
    \/ pc = "photos" /\ \E db_ok \in BOOLEAN :
          BkFinish(db_ok) /\ UNCHANGED not_session
    \/ pc = "handler" /\ \E db_ok \in BOOLEAN :
          BkHandler(db_ok) /\ UNCHANGED not_session
SpecFair == Spec /\ WF_vars(TaskStep)

\* one photograph through the matcher
InitMatch == MatchInit /\ SessionIdle /\ LiveIdle /\ QueueInit /\ OthersIdle
NextMatch ==
    \/ match_pc = "ready" /\ \E photo \in AllPhotos :
          MatchApp(photo) /\ UNCHANGED not_match
    \/ match_pc = "ready" /\ \E photo \in AllPhotos :
          MatchBackend(photo) /\ UNCHANGED not_match
SpecMatch == InitMatch /\ [][NextMatch]_vars

\* one liveness video
InitLiveness == LiveInit /\ SessionIdle /\ MatchIdle /\ QueueInit /\ OthersIdle
NextLiveness ==
    \/ \E frames \in FrameLists : \E sel \in SUBSET (1..MaxFrames) :
          LivePose(frames, sel) /\ UNCHANGED not_live
    \/ LiveFinish /\ UNCHANGED not_live
    \/ \E frames \in FrameLists : BkLivePose(frames) /\ UNCHANGED not_live
    \/ BkLiveFinish /\ UNCHANGED not_live
SpecLiveness == InitLiveness /\ [][NextLiveness]_vars

\* the task queue with its callers and its worker
InitQueue == QueueInit /\ SessionIdle /\ MatchIdle /\ LiveIdle /\ OthersIdle
NextQueue ==
    \/ \E c \in Callers : StartCheck(c) /\ UNCHANGED not_queue
    \/ \E c \in Callers : StartSet(c) /\ UNCHANGED not_queue
    \/ \E c \in Callers : StartThread(c) /\ UNCHANGED not_queue
    \/ \E c \in Callers : QueueStop(c) /\ UNCHANGED not_queue
    \/ \E c \in Callers : CreateInsert(c) /\ UNCHANGED not_queue
    \/ \E c \in Callers : EnqueueAcquire(c) /\ UNCHANGED not_queue
    \/ \E c \in Callers : EnqueueAppend(c) /\ UNCHANGED not_queue
    \/ \E w \in 1..Len(workers) : RunLoop(w) /\ UNCHANGED not_queue
    \/ \E w \in 1..Len(workers) : RunAcquire(w) /\ UNCHANGED not_queue
    \/ \E w \in 1..Len(workers) : RunPop(w) /\ UNCHANGED not_queue
    \/ \E w \in 1..Len(workers) : RunWait(w) /\ UNCHANGED not_queue
    \/ \E w \in 1..Len(workers) : RunCall(w) /\ UNCHANGED not_queue
    \/ \E w \in 1..Len(workers) : RunReturn(w) /\ UNCHANGED not_queue
    \/ \E w \in 1..Len(workers) : RunRaise(w) /\ UNCHANGED not_queue
SpecQueue == InitQueue /\ [][NextQueue]_vars

\* The worker is a thread of its own: the operating system keeps running
\* it, and a task that was called returns or raises.  A caller that holds
\* the lock in enqueue appends and releases it.
WorkerStep ==
    \E w \in 1..Len(workers) :
        /\ \/ RunLoop(w) \/ RunAcquire(w) \/ RunPop(w) \/ RunWait(w)
           \/ RunCall(w) \/ RunReturn(w) \/ RunRaise(w)
        /\ UNCHANGED not_queue
LockRelease == \E c \in Callers : EnqueueAppend(c) /\ UNCHANGED not_queue
SpecQueueFair == SpecQueue /\ WF_vars(WorkerStep) /\ WF_vars(LockRelease)

\* iou and remove_duplicates of the detector
InitDetect ==
    /\ DetectInit /\ SessionIdle /\ MatchIdle /\ LiveIdle /\ QueueInit
    /\ SimIdle /\ RegIdle /\ ScaleInit
NextDetect ==
    \/ det_pc = "ready" /\ \E boxA \in Boxes : \E boxB \in Boxes :
          DetIou(boxA, boxB) /\ UNCHANGED not_detect
    \/ det_pc = "ready" /\ \E faces \in DetectionLists :
          DetRemove(faces) /\ UNCHANGED not_detect
    \/ DetRemoveAgain /\ UNCHANGED not_detect
SpecDetect == InitDetect /\ [][NextDetect]_vars

\* the similarity function on two unit vectors
InitSimilarity ==
    /\ SimInit /\ SessionIdle /\ MatchIdle /\ LiveIdle /\ QueueInit
    /\ DetectIdle /\ RegIdle /\ ScaleInit
NextSimilarity ==
    \/ \E embedding1 \in Angles : \E embedding2 \in Angles :
          SimApp(embedding1, embedding2) /\ UNCHANGED not_sim
    \/ \E emb1 \in Angles : \E emb2 \in Angles :
          SimBackend(emb1, emb2) /\ UNCHANGED not_sim
SpecSimilarity == InitSimilarity /\ [][NextSimilarity]_vars

\* the registration endpoints, called in any order
InitRegistration ==
    /\ RegInit /\ SessionIdle /\ MatchIdle /\ LiveIdle /\ QueueInit
    /\ DetectIdle /\ SimIdle /\ ScaleInit
NextRegistration ==
    \/ \E a \in AdmissionNumbers : \E token_ok \in BOOLEAN : \E db_ok \in BOOLEAN :
          AppStartRegistration(a, token_ok, db_ok) /\ UNCHANGED not_reg
    \/ \E live \in BOOLEAN : \E e \in EmbeddingLists : \E token_ok \in BOOLEAN :
          check_liveness(live, e, token_ok) /\ UNCHANGED not_reg
    \/ \E a \in AdmissionNumbers : \E e \in EmbeddingLists \cup {NoEmbeddings} :
          \E token_ok \in BOOLEAN : \E db_ok \in BOOLEAN :
              AppCompleteRegistration(a, e, token_ok, db_ok) /\ UNCHANGED not_reg
    \/ \E a \in AdmissionNumbers : BkStartRegistration(a) /\ UNCHANGED not_reg
    \/ \E a \in AdmissionNumbers : \E valid \in BOOLEAN : \E e \in EmbeddingLists :
          liveness_check(a, valid, e) /\ UNCHANGED not_reg
    \/ \E a \in AdmissionNumbers : \E e \in EmbeddingLists \cup {NoEmbeddings} :
          BkCompleteRegistration(a, e) /\ UNCHANGED not_reg
SpecRegistration == InitRegistration /\ [][NextRegistration]_vars

\* detect_faces_in_image of the app on one image
InitScales ==
    /\ ScaleInit /\ SessionIdle /\ MatchIdle /\ LiveIdle /\ QueueInit
    /\ DetectIdle /\ SimIdle /\ RegIdle
NextScales ==
    \/ ms_pc = "image" /\ \E primary \in FoundBy("primary", MaxPrimaryFaces) :
          \E tiny \in FoundBy("tiny", MaxTinyFaces) :
              MsDetect(primary, tiny) /\ UNCHANGED not_scales
    \/ MsCrop /\ UNCHANGED not_scales
SpecScales == InitScales /\ [][NextScales]_vars

\* ======================================================================
\* properties of the attendance sessions
\* ======================================================================
RosterIds(roster) == {roster[i].id : i \in 1..Len(roster)}

\* present and absent are disjoint and together are the roster
Partitions(present_ids, absent_ids, roster) ==
    /\ present_ids \cap absent_ids = {}
    /\ present_ids \cup absent_ids = RosterIds(roster)

\* the app's task has called merge_results_from_multiple_photos
MergeInvoked ==
    /\ impl = "app"
    /\ pc \in {"save", "finish", "handler", "done"}
    /\ photo_idx > n_photos
    /\ Len(all_results) > 0

\* the photo results in which student id is present
PhotosWith(id) ==
    {r \in 1..Len(all_results) : id \in StudentIds(all_results[r].present_students)}

\* the similarity scores the photo results give for student id
ScoresOf(id) ==
    {all_results[p[1]].present_students[p[2]].similarity_score :
        p \in {q \in PhotosWith(id) \X (1..MaxFaces) :
                  /\ q[2] <= Len(all_results[q[1]].present_students)
                  /\ all_results[q[1]].present_students[q[2]].student_id = id}}

\* the status values, in the order of the session's life
StatusRank(v) ==
    CASE v = "pending" -> 0
      [] v = "processing" -> 1
      [] OTHER -> 2

\* the counts of the session row as the creating insert leaves them
CreationCounts ==
    IF impl = "app" THEN None ELSE Some([present |-> 0, absent |-> 0, unknown |-> 0])

\* C2: every result produced for a session (the per-photo results of
\* process_attendance, the merged result of
\* merge_results_from_multiple_photos once it was called, the result of
\* match_faces) has disjoint present and absent sets whose union is the
\* roster read for the session.
C2_PresentAbsentPartition ==
    /\ \A r \in 1..Len(all_results) :
          Partitions(StudentIds(all_results[r].present_students),
                     StudentIds(all_results[r].absent_students), registered_students)
    /\ MergeInvoked =>
          /\ final_results # None
          /\ Partitions(StudentIds(final_results[1].present_students),
                        StudentIds(final_results[1].absent_students), registered_students)
    /\ (impl = "backend" /\ final_results # None) =>
          Partitions(DOMAIN final_results[1].present,
                     RosterIds(final_results[1].absent), registered_students)

\* C3: a session of the app over a non-empty roster with at least one photo
\* that gave a result, and no database failure, ends completed and
\* publishes present = the students matched, absent = the rest of the
\* roster, unknown = the faces that matched nobody.
C3_SessionPublishesCounts ==
    (/\ impl = "app" /\ pc = "done"
     /\ Len(registered_students) > 0 /\ ok_photos >= 1
     /\ raised # "db")
        => /\ status = "completed"
           /\ counts = Some([present |-> Cardinality(DOMAIN exp_best),
                             absent |-> Len(registered_students)
                                           - Cardinality(DOMAIN exp_best),
                             unknown |-> exp_unknown])

\* C5: for a student present in more than one photo, the entry the merge
\* keeps (present_students_map, lines 251-260) carries the highest of the
\* student's similarity scores over the photos.
C5_MergeKeepsHighest ==
    \A id \in RosterIds(registered_students) :
        Cardinality(PhotosWith(id)) > 1 =>
            \E i \in 1..Len(PresentMap(AllPresent(all_results, 1)).order) :
                LET kept == PresentMap(AllPresent(all_results, 1)).order[i]
                IN  /\ kept.student_id = id
                    /\ kept.similarity_score = SetMax(ScoresOf(id))

\* the present ids of a merge, when it returns
MergedIds(results_list) ==
    LET m == merge_results_from_multiple_photos(results_list)
    IN  IF m.ok THEN Some(StudentIds(m.val.present_students)) ELSE None

\* C6: for the photo results A and B of a session, merging [A, B] gives the
\* same present ids as merging [B, A], and merging [A, A] the same as
\* merging [A]; each of these merges returns a result.
C6_MergeUnionLaw ==
    Len(all_results) = 2 =>
        LET A == all_results[1]
            B == all_results[2]
        IN  /\ MergedIds(<<A, B>>) # None
            /\ MergedIds(<<A, B>>) = MergedIds(<<B, A>>)
            /\ MergedIds(<<A, A>>) = MergedIds(<<A>>)

\* C9: when no photo of a session gave a result and nothing raised, the
\* session ends completed with nobody present, the whole roster absent and
\* no unknown face.
C9_NoPhotoAllAbsent ==
    (pc = "done" /\ ok_photos = 0 /\ raised = "none")
        => /\ status = "completed"
           /\ final_results # None
           /\ IF impl = "app"
              THEN /\ final_results[1].present_students = <<>>
                   /\ StudentIds(final_results[1].absent_students)
                          = RosterIds(registered_students)
                   /\ final_results[1].unknown_faces = <<>>
              ELSE /\ DOMAIN final_results[1].present = {}
                   /\ RosterIds(final_results[1].absent) = RosterIds(registered_students)
                   /\ final_results[1].unknown = <<>>

\* the terminal status values
Terminal == {"completed", "failed", "error"}

MatchedSoFar ==
    IF impl = "app"
    THEN UNION {StudentIds(all_results[r].present_students) : r \in 1..Len(all_results)}
    ELSE DOMAIN bk.present_map

\* total_registered of every result of the session (the backend's result
\* has no such field: its present and absent entries are counted)
TotalsOfResults ==
    IF impl = "app"
    THEN {all_results[r].total_registered : r \in 1..Len(all_results)}
             \cup (IF final_results # None THEN {final_results[1].total_registered}
                   ELSE {})
    ELSE IF final_results # None
         THEN {final_results[1].totals.present + final_results[1].totals.absent}
         ELSE {}

\* the students listed, as present or absent, by every result that lists
\* the roster (the fallback result of the app lists nobody)
ListedByResults ==
    IF impl = "app"
    THEN {StudentIds(all_results[r].present_students)
              \cup StudentIds(all_results[r].absent_students) :
             r \in 1..Len(all_results)}
    ELSE IF final_results # None
         THEN {DOMAIN final_results[1].present \cup RosterIds(final_results[1].absent)}
         ELSE {}

\* C20: the task reads the roster once, and what it produces depends on
\* that reading alone: whatever is registered or changed in the students
\* table afterwards, the students matched are the ones the faces match in
\* the roster as read, and every result counts and lists (as present or
\* absent) exactly the students of the roster as read.
C20_RosterReadOnce ==
    /\ Len(roster_reads) <= 1
    /\ registered_students = IF roster_reads = <<>> THEN <<>> ELSE roster_reads[1]
    /\ MatchedSoFar = DOMAIN exp_best
    /\ \A total \in TotalsOfResults : total = Len(roster_reads[1])
    /\ \A ids \in ListedByResults : ids = RosterIds(roster_reads[1])

\* a session ended completed with a student marked present although the
\* students table changed after the roster was read
C20_Witness ==
    /\ status = "completed"
    /\ final_results # None
    /\ roster_reads # <<>>
    /\ students_table # roster_reads[1]
    /\ MatchedSoFar # {}

\* C29: every session that was created and submitted eventually reaches a
\* terminal status and does not stay pending or processing for ever,
\* whichever step of its task raises, a write of the database included.
C29_EventuallyTerminal ==
    (status \in {"pending", "processing"}) ~> (status \in Terminal)

\* C30: a session that ends failed leaves the attendance_records and the
\* unknown_faces tables as they were: no row of either table belongs to
\* it.
C30_FailedLeavesNoRows ==
    status = "failed" => (attendance_records = <<>> /\ unknown_rows = <<>>)

\* ======================================================================
\* properties of the matcher on one photograph
\* ======================================================================
\* the faces of the photograph that reached the matcher
MatchedFaces == EmbeddedOf(match_impl, match_photo[1])

\* those whose best similarity over the roster is below the threshold
BelowThreshold ==
    {i \in 1..Len(MatchedFaces) :
        TopSimilarity(MatchedFaces[i].emb, match_roster)
            < RECOGNITION_SIMILARITY_THRESHOLD}

\* the present entries of the result, as [id, score]
MatchPresent ==
    IF match_impl = "app"
    THEN {[id |-> e.student_id, score |-> e.similarity_score] :
             e \in {match_out[1].present_students[i] :
                       i \in 1..Len(match_out[1].present_students)}}
    ELSE {[id |-> id, score |-> match_out[1].present[id].confidence_score] :
             id \in DOMAIN match_out[1].present}

MatchUnknownCount ==
    IF match_impl = "app" THEN Len(match_out[1].unknown_faces)
    ELSE Len(match_out[1].unknown)

\* C1: in the result of the matcher on a photograph, every present entry
\* has a score at or above the threshold and is owed to a face whose best
\* similarity reaches the threshold, and every face whose best similarity
\* is below the threshold is recorded as an unknown face.
C1_ThresholdGate ==
    (match_pc = "matched" /\ match_out # None) =>
        /\ \A e \in MatchPresent :
              /\ e.score >= RECOGNITION_SIMILARITY_THRESHOLD
              /\ \E i \in (1..Len(MatchedFaces)) \ BelowThreshold :
                    ExpectedMatch(MatchedFaces[i].emb, match_roster) = {e.id}
        /\ MatchUnknownCount = Cardinality(BelowThreshold)

\* a face whose best candidate has a positive similarity below the
\* threshold went through the matcher and was recorded as unknown
C1_Witness ==
    /\ match_pc = "matched" /\ match_out # None
    /\ \E i \in BelowThreshold : TopSimilarity(MatchedFaces[i].emb, match_roster) > 0
    /\ MatchUnknownCount > 0

\* the faces that reached the matcher and match student id: their best
\* candidate is that student and its similarity reaches the threshold
FacesMatching(id) ==
    {i \in 1..Len(MatchedFaces) : ExpectedMatch(MatchedFaces[i].emb, match_roster) = {id}}

\* how often student id is listed as present
PresentCount(id) ==
    IF match_impl = "app"
    THEN Cardinality({i \in 1..Len(match_out[1].present_students) :
                         match_out[1].present_students[i].student_id = id})
    ELSE IF id \in DOMAIN match_out[1].present THEN 1 ELSE 0

\* C12: in the result of one photograph every student is listed as present
\* at most once, and the entry of a present student carries the score of
\* the first face, in detection order, that matches the student: a later
\* face matching the same student does not replace the entry.
C12_FirstFaceKept ==
    (match_pc = "matched" /\ match_out # None) =>
        /\ \A id \in RosterIds(match_roster) : PresentCount(id) <= 1
        /\ \A e \in MatchPresent :
              /\ FacesMatching(e.id) # {}
              /\ e.score = TopSimilarity(MatchedFaces[SetMin(FacesMatching(e.id))].emb,
                                         match_roster)

\* the students of the roster whose best similarity to the query is the
\* best of the whole roster, as positions in roster order
TopStudents(query, roster) ==
    {i \in 1..Len(roster) :
        StudentSimilarity(query, roster[i]) = TopSimilarity(query, roster)}

\* C24: for one query face (a photograph with one face that reaches the
\* matcher), the student chosen is one whose best similarity over the
\* student's own stored embeddings is the greatest of the roster, the
\* score reported is that similarity, and of several students with that
\* similarity the earliest in roster order is chosen.
C24_BestOfSetEarliestOnTie ==
    (match_pc = "matched" /\ match_out # None /\ Len(MatchedFaces) = 1) =>
        LET query == MatchedFaces[1].emb
            top == TopStudents(query, match_roster)
        IN  \A e \in MatchPresent :
                /\ e.score = TopSimilarity(query, match_roster)
                /\ top # {}
                /\ e.id = match_roster[SetMin(top)].id

\* one face matched, and two students of the roster share its best
\* similarity
C24_Witness ==
    /\ match_pc = "matched" /\ match_out # None /\ Len(MatchedFaces) = 1
    /\ MatchPresent # {}
    /\ Cardinality(TopStudents(MatchedFaces[1].emb, match_roster)) = 2

\* the detection of the photograph that the metadata entry md describes
\* (md is Some(i): the bounding box and confidence of detection i)
DetectionOf(md) == match_photo[1].faces[md[1]]

\* the embedding emb was extracted from the detection md describes
ExtractedFrom(emb, md) ==
    /\ md # None
    /\ DetectionOf(md).stage \in {"ok", "blurry"}
    /\ DetectionOf(md).emb = emb

\* C27: in the result of a photograph of process_attendance_background,
\* the bounding box and detection confidence of every matched student and
\* of every unknown face are those of the detection from which the
\* embedding was extracted, also when an earlier face of the photograph
\* failed normalization or embedding extraction.
C27_MetadataOfOwnDetection ==
    (match_impl = "app" /\ match_pc = "matched" /\ match_out # None) =>
        /\ \A i \in 1..Len(match_out[1].unknown_faces) :
              ExtractedFrom(match_out[1].unknown_faces[i].embedding,
                            match_out[1].unknown_faces[i].bbox)
        /\ \A i \in 1..Len(match_out[1].present_students) :
              LET e == match_out[1].present_students[i]
              IN  /\ e.bbox # None
                  /\ DetectionOf(e.bbox).stage \in {"ok", "blurry"}
                  /\ ExpectedMatch(DetectionOf(e.bbox).emb, match_roster) = {e.student_id}
                  /\ e.similarity_score = TopSimilarity(DetectionOf(e.bbox).emb, match_roster)

\* C28: match_multiple_faces classifies every query embedding into exactly
\* one outcome: in the result of a photograph the matched students and the
\* unknown faces together are as many as the embeddings handed to the
\* matcher.
C28_EveryFaceClassified ==
    (match_impl = "app" /\ match_pc = "matched" /\ match_out # None) =>
        Len(match_out[1].present_students) + Len(match_out[1].unknown_faces)
            = Len(MatchedFaces)

\* the faces of the photograph whose aligned crop passes the quality gate
\* and that embed
QualityFaces ==
    LET Passes(f) == f.stage = "ok"
    IN  SelectSeq(match_photo[1].faces, Passes)

\* C19: a face whose aligned crop fails the quality gate is not embedded
\* and so is neither a match nor an unknown face of the photograph: the
\* present students and the unknown faces of the result are owed to the
\* faces that passed the gate.
C19_QualityGateBeforeEmbedding ==
    (match_pc = "matched" /\ match_out # None) =>
        /\ {e.id : e \in MatchPresent} \subseteq ExpectedPresent(QualityFaces, match_roster)
        /\ MatchUnknownCount <= ExpectedUnknown(QualityFaces, match_roster)

\* ======================================================================
\* properties of a liveness video
\* ======================================================================
LiveOutcome ==
    IF live_impl = "app" THEN live_result[1].is_live ELSE live_result[1].valid

\* every required pose has at least LIVENESS_MIN_FRAMES_PER_POSE accepted frames
AllPosesAccepted ==
    /\ Len(live_accepted) = Len(required_poses)
    /\ \A i \in 1..Len(live_accepted) :
          live_accepted[i] >= LIVENESS_MIN_FRAMES_PER_POSE

\* C4: the outcome of a liveness video is true only when each of the four
\* required poses has at least LIVENESS_MIN_FRAMES_PER_POSE accepted
\* frames, and it is true whenever they all have and the frames kept gave
\* an embedding; a pose below that count makes the outcome false.
C4_LiveIffAllPoses ==
    live_pc = "done" =>
        /\ LiveOutcome => AllPosesAccepted
        /\ (AllPosesAccepted /\ live_embeddings > 0) => LiveOutcome

\* the accepted-frame count of every required pose of the request
AcceptedOfRequest == live_accepted \o live_rest

\* the required poses with fewer accepted frames than the minimum
PosesBelowMinimum ==
    {required_poses[i] : i \in {j \in 1..Len(AcceptedOfRequest) :
                                   AcceptedOfRequest[j] < LIVENESS_MIN_FRAMES_PER_POSE}}

\* the outcome is not live and the report blames poses
FailedOnPoses ==
    /\ live_pc = "done"
    /\ IF live_impl = "app"
       THEN \E i \in 1..Len(pose_validations) : ~pose_validations[i]
       ELSE live_result[1].error \in {"Not enough frames", "No valid frames"}

\* the poses the failure report names
PosesNamed ==
    IF live_impl = "app"
    THEN {live_result[1].missing[i] : i \in 1..Len(live_result[1].missing)}
    ELSE {live_result[1].pose}

\* C13: when a liveness video fails because of poses, the report names
\* exactly the required poses whose accepted-frame count is below
\* LIVENESS_MIN_FRAMES_PER_POSE: each of them, and no other pose.
C13_ReportNamesMissingPoses ==
    FailedOnPoses =>
        /\ ~LiveOutcome
        /\ PosesNamed = PosesBelowMinimum

\* what a frame of each kind is: a face detected with confidence at least
\* 0.5, yaw and pitch inside the ranges of the pose, an aligned crop that
\* passes the quality gate
FaceDetected(kind) == kind \in {"good", "no_embedding", "low_quality", "wrong_pose"}
PoseInRange(kind) == kind \in {"good", "no_embedding", "low_quality"}
QualityPassed(kind) == kind \in {"good", "no_embedding"}

\* C18: a frame of a liveness video is counted as an accepted frame of its
\* pose only if a face was detected with enough confidence, its yaw and
\* pitch are inside the ranges of the pose and its aligned crop passed the
\* quality gate; a frame that failed the quality gate is neither counted
\* nor given to the embedding extractor.
C18_AcceptedFramesPassQuality ==
    /\ \A kind \in live_seen.counted :
          FaceDetected(kind) /\ PoseInRange(kind) /\ QualityPassed(kind)
    /\ \A kind \in live_seen.used : QualityPassed(kind)

\* ======================================================================
\* properties of the task queue
\* ======================================================================
\* C8: at most one session task is being executed at any instant.
C8_OneTaskAtATime == Cardinality(Running) <= 1

\* a task is being executed while another one waits in the queue, after
\* start() was called by two callers at once
C8_Witness ==
    /\ Cardinality(Running) = 1
    /\ Len(q_queue) > 0
    /\ \E c \in Callers : callers[c].pc = "start_thread"

\* s is a prefix of t
IsPrefix(s, t) == Len(s) <= Len(t) /\ SubSeq(t, 1, Len(s)) = s

\* C23: TaskQueue executes the tasks first in, first out and each at most
\* once: at every instant the sequence of tasks the worker has started is
\* a prefix of the sequence in which the enqueue calls completed, whatever
\* the interleaving of the callers with the worker.
C23_FirstInFirstOut == IsPrefix(q_run, q_enqueued)

\* two tasks were started, and their enqueue calls completed in the order
\* opposite to the one in which their sessions were created
C23_Witness == q_run = <<2, 1>>

\* task t has been enqueued / has been called by the worker
Enqueued(t) == \E i \in 1..Len(q_enqueued) : q_enqueued[i] = t
Executed(t) == \E i \in 1..Len(q_run) : q_run[i] = t

\* C26: a task that raises does not stop the worker: once a task has
\* raised, every task that is enqueued, before or after the failing one,
\* is eventually executed, unless stop() is called.
C26_WorkerSurvivesFailure ==
    \A t \in 1..MaxTasks :
        (q_failed # {} /\ Enqueued(t)) ~> (Executed(t) \/ q_stop)

\* the first task raised, and the worker executed the next one
C26_Witness ==
    /\ Len(q_run) = 2
    /\ q_run[1] \in q_failed
    /\ ~q_stop

\* ======================================================================
\* consistency of the published result
\* ======================================================================
\* C11: the result of a session that is published (the session is
\* completed) has total_present equal to the length of its present list,
\* total_absent equal to the length of its absent list, and the two add up
\* to total_registered; this covers the merged result and the fallback of
\* a session without photo result.
C11_CountsConsistent ==
    (status = "completed" /\ final_results # None) =>
        IF impl = "app"
        THEN /\ final_results[1].total_present = Len(final_results[1].present_students)
             /\ final_results[1].total_absent = Len(final_results[1].absent_students)
             /\ final_results[1].total_present + final_results[1].total_absent
                    = final_results[1].total_registered
        ELSE /\ final_results[1].totals.present
                    = Cardinality(DOMAIN final_results[1].present)
             /\ final_results[1].totals.absent = Len(final_results[1].absent)
             /\ final_results[1].totals.present + final_results[1].totals.absent
                    = Len(registered_students)

\* ======================================================================
\* properties of the detector's duplicate removal
\* ======================================================================
\* two boxes that share no area: one ends before the other begins
NoOverlap(boxA, boxB) ==
    \/ boxA[3] <= boxB[1] \/ boxB[3] <= boxA[1]
    \/ boxA[4] <= boxB[2] \/ boxB[4] <= boxA[2]

\* iou returned the number n
IouIs(n) == det_iou[1].ok /\ det_iou[1].val.den > 0
                /\ det_iou[1].val.num = n * det_iou[1].val.den

\* C14: iou, in both implementations, returns 0 for two boxes that do not
\* overlap, 1 for two identical boxes of positive area, and 0, without
\* raising, for two boxes whose union has area 0.
C14_IouCases ==
    det_pc = "iou" =>
        /\ NoOverlap(det_boxes[1], det_boxes[2]) => IouIs(0)
        /\ (det_boxes[1] = det_boxes[2] /\ Area(det_boxes[1]) > 0) => IouIs(1)
        /\ UnionArea(det_boxes[1], det_boxes[2]) = 0 => IouIs(0)

\* C15: remove_duplicates is idempotent: applied to the list it returned,
\* it returns that list again, the same faces in the same order.
C15_RemoveDuplicatesIdempotent ==
    det_pc = "twice" => (det_twice[1].ok /\ det_twice[1].val = det_once[1].val)

\* the first application dropped a duplicate and kept two faces, and the
\* second application has been made
C15_Witness ==
    /\ det_pc = "twice"
    /\ Len(det_once[1].val) = 2
    /\ Len(det_faces) = 3

\* the IoU of two retained faces: intersection over union, 0 when the
\* union has area 0
IouOf(f, g) ==
    IF UnionArea(f.bbox, g.bbox) = 0 THEN Quotient(0, 1)
    ELSE Quotient(InterArea(f.bbox, g.bbox), UnionArea(f.bbox, g.bbox))

\* C25: after remove_duplicates every two distinct retained faces have an
\* IoU strictly below the threshold 0.5; a face whose IoU with a face
\* already kept is exactly 0.5 is dropped.
C25_RetainedBelowThreshold ==
    (det_pc \in {"once", "twice"} /\ det_once[1].ok) =>
        \A i \in 1..Len(det_once[1].val) : \A j \in 1..Len(det_once[1].val) :
            i # j => Less(IouOf(det_once[1].val[i], det_once[1].val[j]), iou_threshold)

\* ======================================================================
\* properties of the similarity function
\* ======================================================================
\* C16: the similarity of two unit vectors lies in [0, 1] (0 to 100
\* hundredths), also when their dot product is negative, and the
\* similarity of a vector with itself is 1.
C16_SimilarityInUnitInterval ==
    sim_out # None =>
        /\ 0 <= sim_out[1] /\ sim_out[1] <= 100
        /\ sim_args[1][1] = sim_args[1][2] => sim_out[1] = 100
\* ======================================================================
\* properties of registration
\* ======================================================================
\* the embeddings that a liveness check of this registration answered
\* live with
IssuedFor(admission_number) ==
    {p[2] : p \in {q \in reg_issued :
                      q[1] = IF reg_impl = "app" THEN 0 ELSE admission_number}}

\* C17: a student row carries reference embeddings only if a liveness
\* check for that registration answered live before, and the embeddings
\* stored are the ones that check produced.
C17_EnrollmentGatedByLiveness ==
    \A a \in DOMAIN reg_students :
        reg_students[a] # NoEmbeddings => reg_students[a] \in IssuedFor(a)

\* the students the session's final result lists as present
PresentOfResult ==
    IF final_results = None THEN {}
    ELSE IF impl = "app" THEN StudentIds(final_results[1].present_students)
    ELSE DOMAIN final_results[1].present

\* the task has ended, a photo of the session was skipped (it did not
\* decode, had no face, or none of its faces could be embedded), another
\* photo was processed, and no database call or detector call raised
SkippedAnItem ==
    /\ pc = "done"
    /\ ok_photos >= 1
    /\ ok_photos < n_photos
    /\ raised \notin {"db", "DetectionError"}

\* C22: a failure confined to one photo or face is skipped without
\* raising: when a photo of the session was skipped and nothing else
\* failed, the session ends completed, not failed, and the students
\* matched on the remaining photos are present in its result.
C22_ItemFailureSkipped ==
    SkippedAnItem =>
        /\ status = "completed"
        /\ final_results # None
        /\ MatchedSoFar \subseteq PresentOfResult

\* ----------------------------------------------------------------------
\* multi-scale detection
\* ----------------------------------------------------------------------
Returned == ms_pc = "returned"
PrimaryKept == AtLeast(ms_primary, DETECTION_CONFIDENCE_THRESHOLD)
RetryFaces == AtLeast(ms_tiny, min_thresh)
InList(f, faces) == \E i \in 1..Len(faces) : faces[i] = f
\* a retry face that remove_duplicates dropped overlaps a face kept before it
DroppedAsDuplicate(f) == ~InList(f, ms_details)

\* C21: when the primary scales give fewer faces than the retry limit at
\* the base threshold, detect_faces_in_image returns every face of the
\* scales 320 and 480 whose score is at least min_thresh and which was not
\* dropped as a duplicate, also when its score is below the base
\* threshold; when the primary scales reach the limit no face of the
\* retry scales is returned.
C21_RetryFacesReturned ==
    Returned =>
        IF Len(PrimaryKept) < ExpectedFaces
        THEN \A i \in 1..Len(RetryFaces) :
                 DroppedAsDuplicate(RetryFaces[i]) \/ InList(RetryFaces[i], ms_metadata)
        ELSE \A i \in 1..Len(ms_metadata) : ms_metadata[i].pass = "primary"

====
